---- MODULE Spec2Model ----
(***************************************************************************)
(* Model of the dashboard front end, src/FRONTEND/app.js: the State        *)
(* singleton (Entity Store), the sort/filter pipeline, the table renderer  *)
(* with its expandable action rows, and the async action handlers with     *)
(* their remote calls in flight.                                           *)
(*                                                                         *)
(* Strings are sequences of characters.  A character is a one-letter       *)
(* string, or one of the literals the code tests for, kept as one unit:    *)
(* ".git", "NEW_PROJECTS", "http://".                                      *)
(***************************************************************************)
EXTENDS Integers, Sequences, FiniteSets, Bags, TLC

VARIABLES
    State,          \* the State singleton of app.js (username .. defaultPushMessage)
    sortKey,        \* UI.sortKey
    sortDir,        \* UI.sortDir
    search,         \* UI.el.search.value
    tbody,          \* children of #repos-tbody, in document order
    welcome,        \* the notice last shown by UI.showWelcome
    localStorage,   \* the two localStorage keys the code uses
    header,         \* the texts UI.updateHeader last wrote to the navigation bar
    tasks,          \* async handlers suspended at an await, with their closures
                    \* (a bag); one with pc "confirm" holds ConfirmDialog.resolve
    handlers,       \* TRUE once bootstrapApp has registered the event listeners
    budget          \* the number of user actions that may still start a remote
                    \* call: the model follows the program that far

vars == <<State, sortKey, sortDir, search, tbody, welcome, localStorage,
          header, tasks, handlers, budget>>

(***************************************************************************)
(* Bounds of the model.                                                    *)
(***************************************************************************)
MaxTasks == 2       \* async handlers suspended at the same time
MaxDispatched == 2  \* changes the user starts in a run of a part of the program
MaxWhole == 1       \* changes the user starts in a run of the whole program
MaxUrlLen == 4      \* length of the URL strings of SpecNorm
MaxRows == 3        \* length of the record arrays of SpecRows
MaxInTurn == 3      \* changes the user starts one after the other in SpecInTurn

(***************************************************************************)
(* Strings.                                                                *)
(***************************************************************************)
\* String.prototype.trim: strips white space at both ends.
RECURSIVE TrimLeft(_)
TrimLeft(s) == IF s # <<>> /\ Head(s) = " " THEN TrimLeft(Tail(s)) ELSE s

RECURSIVE TrimRight(_)
TrimRight(s) ==
    IF s # <<>> /\ s[Len(s)] = " " THEN TrimRight(SubSeq(s, 1, Len(s) - 1)) ELSE s

Trim(s) == TrimRight(TrimLeft(s))

EndsWith(s, suffix) ==
    /\ Len(suffix) <= Len(s)
    /\ SubSeq(s, Len(s) - Len(suffix) + 1, Len(s)) = suffix

Includes(s, c) == \E i \in 1..Len(s) : s[i] = c

\* url.replace(/\.git$/, ''): drops one ".git" at the very end.
StripGitSuffix(s) ==
    IF s # <<>> /\ s[Len(s)] = ".git" THEN SubSeq(s, 1, Len(s) - 1) ELSE s

\* url.replace(/\/$/, ''): drops one "/" at the very end.
StripTrailingSlash(s) ==
    IF s # <<>> /\ s[Len(s)] = "/" THEN SubSeq(s, 1, Len(s) - 1) ELSE s

normalizeRepoUrl(url) == StripTrailingSlash(StripGitSuffix(url))

\* /^https?:\/\//i.test(String(value || '').trim())
isHttpUrl(value) == LET t == Trim(value) IN t # <<>> /\ Head(t) = "http://"

\* `${repo.name}|${repo.url}`
buildRowKey(repo) == repo.name \o <<"|">> \o repo.url

(***************************************************************************)
(* Comparison.  localeCompare with sensitivity 'base' ignores case: the    *)
(* characters are ranked with upper and lower case folded together.        *)
(***************************************************************************)
CharRank(c) ==
    CASE c = " " -> 0
      [] c = "|" -> 1
      [] c = "/" -> 2
      [] c = ".git" -> 3
      [] c \in {"a", "A"} -> 4
      [] c \in {"b", "B"} -> 5
      [] c \in {"c", "C"} -> 6
      [] c \in {"d", "D"} -> 7
      [] c = "http://" -> 8
      [] c = "NEW_PROJECTS" -> 9
      [] OTHER -> 10

RECURSIVE localeCompare(_, _)
localeCompare(s, t) ==
    IF s = <<>> /\ t = <<>> THEN 0
    ELSE IF s = <<>> THEN -1
    ELSE IF t = <<>> THEN 1
    ELSE IF CharRank(Head(s)) < CharRank(Head(t)) THEN -1
    ELSE IF CharRank(Head(s)) > CharRank(Head(t)) THEN 1
    ELSE localeCompare(Tail(s), Tail(t))

\* Date.parse of the created_at strings the model uses, in ms: <<ms>>, or
\* <<>> for NaN (a string that is no date).
DateParse(value) ==
    CASE value = "1969-12-31T23:59:58Z" -> <<-2000>>
      [] value = "1970-01-01T00:00:01Z" -> <<1000>>
      [] value = "1970-01-01T00:00:02Z" -> <<2000>>
      [] OTHER -> <<>>

getCreatedAtMs(value) ==
    LET ts == DateParse(value) IN IF ts # <<>> THEN ts[1] ELSE -1

\* The comparator of recalcRowNumbers and State.init: created_at descending,
\* then name, case-insensitively.
CompareForRowNo(a, b) ==
    LET dt == getCreatedAtMs(b.created_at) - getCreatedAtMs(a.created_at)
    IN  IF dt # 0 THEN dt ELSE localeCompare(a.name, b.name)

\* The comparator of UI.getSortedRepos for a sort key and direction.
TypeWeight(repo) == IF repo.is_new_project THEN 0 ELSE IF repo.private THEN 1 ELSE 2

CompareForView(key, dir, a, b) ==
    LET result ==
            CASE key = "name" -> localeCompare(a.name, b.name)
              [] key = "description" -> localeCompare(a.description, b.description)
              [] key = "url" -> localeCompare(a.url, b.url)
              [] key = "created_at" ->
                    getCreatedAtMs(a.created_at) - getCreatedAtMs(b.created_at)
              [] key = "type" -> TypeWeight(a) - TypeWeight(b)
              [] OTHER -> 0
    IN  result * (IF dir = "asc" THEN 1 ELSE -1)

\* The comparator of State.getLaunchableRepos.
CompareByRowNo(a, b) == a.rowNo - b.rowNo

\* mode selects the comparator: <<"rowNo">>, <<"view", key, dir>> or <<"launch">>.
Compare(mode, a, b) ==
    CASE mode[1] = "rowNo" -> CompareForRowNo(a, b)
      [] mode[1] = "view" -> CompareForView(mode[2], mode[3], a, b)
      [] OTHER -> CompareByRowNo(a, b)

\* Array.prototype.sort is stable: an insertion sort that keeps the input
\* order of the elements the comparator reports as equal.
RECURSIVE InsertSorted(_, _, _)
InsertSorted(sorted, x, mode) ==
    IF sorted = <<>> THEN <<x>>
    ELSE IF Compare(mode, sorted[Len(sorted)], x) <= 0 THEN Append(sorted, x)
    ELSE Append(InsertSorted(SubSeq(sorted, 1, Len(sorted) - 1), x, mode),
                sorted[Len(sorted)])

RECURSIVE StableSortFrom(_, _, _, _)
StableSortFrom(seq, i, acc, mode) ==
    IF i > Len(seq) THEN acc
    ELSE StableSortFrom(seq, i + 1, InsertSorted(acc, seq[i], mode), mode)

StableSort(seq, mode) == StableSortFrom(seq, 1, <<>>, mode)

\* The index of the first element of seq that satisfies a test given as the
\* set of the indexes that do, or 0: Array.prototype.find.
FirstIndex(S) == IF S = {} THEN 0 ELSE CHOOSE i \in S : \A j \in S : i <= j

(***************************************************************************)
(* Entity Store: row numbers and counters.                                 *)
(***************************************************************************)
\* A Map that numbers the keys from the top of the order: idx + 1.
RowNoFromTop(ordered, key) ==
    LET hits == {i \in 1..Len(ordered) : buildRowKey(ordered[i]) = key}
    IN  IF hits = {} THEN 0 ELSE CHOOSE i \in hits : \A j \in hits : j <= i

\* new Map(ordered.map((repo, idx) => [key, ordered.length - idx])): a later
\* entry with the same key replaces an earlier one.
RowNoOf(ordered, key) ==
    LET hits == {i \in 1..Len(ordered) : buildRowKey(ordered[i]) = key}
    IN  IF hits = {} THEN 0
        ELSE Len(ordered) - ((CHOOSE i \in hits : \A j \in hits : j <= i) - 1)

recalcRowNumbers(repos) ==
    LET ordered == StableSort(repos, <<"rowNo">>)
    IN  [i \in 1..Len(repos) |->
            [repos[i] EXCEPT !.rowNo = RowNoOf(ordered, buildRowKey(repos[i]))]]

LocalOnlyIndexes(repos) == {i \in 1..Len(repos) : repos[i].is_new_project}

\* A recalcStateCounters that numbers the rows and leaves the counters.
recalcRowNumbersOnly(S) == [S EXCEPT !.repos = recalcRowNumbers(S.repos)]

recalcStateCounters(S) ==
    [S EXCEPT !.localOnlyCount = Cardinality(LocalOnlyIndexes(S.repos)),
              !.count = Len(S.repos) - Cardinality(LocalOnlyIndexes(S.repos)),
              !.installedCount = Cardinality(S.installedUrls),
              !.repos = recalcRowNumbers(S.repos)]

\* State.isInstalled(repo).  The callers that pass {name, url} only (a click
\* on a url link or a button) pass is_new_project = FALSE for the missing field.
isInstalled(S, repo) ==
    IF repo.is_new_project THEN FALSE ELSE normalizeRepoUrl(repo.url) \in S.installedUrls

\* The value of State after construction.  lastLaunchedRowNo: 0 stands for
\* null (the code reads it as Number(x || 0)).
StateAtConstruction ==
    [username |-> "", avatarUrl |-> "", installedCount |-> 0, repos |-> <<>>,
     count |-> 0, installedUrls |-> {}, localOnlyCount |-> 0,
     lastLaunchedRowNo |-> 0, localDescriptions |-> {},
     defaultPushMessage |-> <<>>]

(***************************************************************************)
(* The collaborators' answers to a load.  The remote side is opaque: it    *)
(* answers with one of these snapshots, with an error body, or not at all. *)
(***************************************************************************)
\* rowNo is __rowNo.  ref is the identity of the object: two records are the
\* same object exactly if their refs are equal; an answer's records have none.
Repo(name, url, created, isNew, private, canPush) ==
    [name |-> name, url |-> url, description |-> <<>>, created_at |-> created,
     is_new_project |-> isNew, private |-> private, can_push |-> canPush,
     rowNo |-> 0, ref |-> 0]

LocalA == Repo(<<"a">>, <<"NEW_PROJECTS", "/", "a">>, "1970-01-01T00:00:02Z",
               TRUE, FALSE, TRUE)

GitA == Repo(<<"a">>, <<"http://", "a">>, "1970-01-01T00:00:02Z", FALSE, TRUE, FALSE)

GitB == Repo(<<"b">>, <<"http://", "b">>, "1970-01-01T00:00:01Z", FALSE, FALSE, FALSE)

\* The answers of /api/config and /api/repos to one load.
LoadAnswers ==
    { <<[ok |-> TRUE, username |-> "alice", avatar_url |-> "alice.png",
         installed_count |-> 0, default_push_message |-> <<"c">>,
         installed_urls |-> <<>>],
        [ok |-> TRUE, repos |-> <<LocalA, GitA>>, count |-> 1]>>,
      <<[ok |-> TRUE, username |-> "alice", avatar_url |-> "alice.png",
         installed_count |-> 1, default_push_message |-> <<"c">>,
         installed_urls |-> << <<"http://", "a", ".git">> >>],
        [ok |-> TRUE, repos |-> <<GitB, GitA, LocalA>>, count |-> 2]>> }

\* The body of an error answer, {detail: ...}, read as a config or as a repo
\* list: every field the code reads is undefined.  An undefined count is
\* written -1, an undefined text "undefined".
ConfigError ==
    [ok |-> FALSE, username |-> "undefined", avatar_url |-> "undefined",
     installed_count |-> -1, default_push_message |-> <<>>, installed_urls |-> <<>>]

ReposError == [ok |-> FALSE, repos |-> <<>>, count |-> 0]

SeqToSet(seq) == {seq[i] : i \in 1..Len(seq)}

\* The object kept under LOCAL_DESC_KEY: a set of <<name, description>> pairs
\* with one pair for a name at most.
HasDescription(map, name) == \E p \in map : p[1] = name

DescriptionOf(map, name) == (CHOOSE p \in map : p[1] = name)[2]

\* The i-th of the object identities that no suspended handler holds: the
\* objects repos.map creates are new ones.
RECURSIVE NthFree(_, _)
NthFree(held, i) ==
    LET first == CHOOSE n \in 1..(Cardinality(held) + 1) : n \notin held
    IN  IF i <= 1 THEN first ELSE NthFree(held \cup {first}, i - 1)

\* The statements of State.init after its await, applied to the two parsed
\* answers; ls is localStorage.
StateInitBody(S, config, reposData, ls, held) ==
    LET numbered == recalcRowNumbers(reposData.repos)
        repos == [i \in 1..Len(numbered) |->
                    [numbered[i] EXCEPT !.ref = NthFree(held, i)]]
        described ==
            [i \in 1..Len(repos) |->
                IF repos[i].is_new_project /\ HasDescription(ls.localDescriptions, repos[i].name)
                THEN [repos[i] EXCEPT
                        !.description = DescriptionOf(ls.localDescriptions, repos[i].name)]
                ELSE repos[i]]
    IN  [S EXCEPT !.username = config.username,
                  !.avatarUrl = config.avatar_url,
                  !.installedCount = config.installed_count,
                  !.defaultPushMessage = Trim(config.default_push_message),
                  !.repos = described,
                  !.localDescriptions = ls.localDescriptions,
                  !.localOnlyCount = Cardinality(LocalOnlyIndexes(described)),
                  !.count = reposData.count,
                  !.installedUrls =
                      {normalizeRepoUrl(u) : u \in SeqToSet(config.installed_urls)},
                  !.lastLaunchedRowNo = ls.lastUrlRowNo]

(***************************************************************************)
(* The table.  tbody is the sequence of the tr nodes of #repos-tbody.  A   *)
(* repo row carries its dataset and the state of its cells; an action row  *)
(* (the expanded panel) carries the values its buttons were rendered with. *)
(* The model's characters need no HTML escaping, so UI.escape changes      *)
(* nothing here and a dataset value reads back as written.                 *)
(***************************************************************************)
RemoveAt(seq, i) == SubSeq(seq, 1, i - 1) \o SubSeq(seq, i + 1, Len(seq))

InsertAt(seq, i, x) == SubSeq(seq, 1, i - 1) \o <<x>> \o SubSeq(seq, i, Len(seq))

IndexOfId(tb, id) == FirstIndex({i \in 1..Len(tb) : tb[i].id = id})

\* formatCreated: the date and the time (to the minute) of an ISO string, each
\* kept as one character; "" stands for a part that is undefined or empty.
formatCreated(value) ==
    CASE value = "" -> [date |-> "", time |-> ""]
      [] value = "1969-12-31T23:59:58Z" -> [date |-> "1969-12-31", time |-> "23:59"]
      [] value = "1970-01-01T00:00:01Z" -> [date |-> "1970-01-01", time |-> "00:00"]
      [] value = "1970-01-01T00:00:02Z" -> [date |-> "1970-01-01", time |-> "00:00"]
      [] OTHER -> [date |-> value, time |-> "--:--"]

\* templateApi.renderRepoRow: what setting innerHTML to its result leaves in
\* the cells of a row.  active is the class the logo cell gets on expansion;
\* editName and editDescription say that the cell holds an input field.
renderRepoRow(repo) ==
    [rowNo |-> repo.rowNo, name |-> repo.name, url |-> repo.url,
     description |-> repo.description, created |-> formatCreated(repo.created_at),
     logo |-> IF repo.is_new_project THEN "folder"
              ELSE IF repo.private THEN "lock" ELSE "globe",
     isLocal |-> repo.is_new_project, hasUnpushed |-> repo.can_push,
     active |-> FALSE, editName |-> FALSE, editDescription |-> FALSE, focus |-> "",
     td |-> 0]

NoCells ==
    [rowNo |-> 0, name |-> <<>>, url |-> <<>>, description |-> <<>>,
     created |-> [date |-> "", time |-> ""],
     logo |-> "", isLocal |-> FALSE, hasUnpushed |-> FALSE, active |-> FALSE,
     editName |-> FALSE, editDescription |-> FALSE, focus |-> "", td |-> 0]

\* document.createElement('tr')
NewRow(id) ==
    [tag |-> "row", id |-> id, key |-> <<>>, name |-> <<>>, url |-> <<>>,
     isNew |-> FALSE, installed |-> FALSE, canPush |-> FALSE, cells |-> NoCells]

\* The action row openActionRow builds from a row's dataset.
NewActionRow(id, name, url, isNew, installed, canPush) ==
    [tag |-> "action", id |-> id, key |-> <<>>, name |-> name, url |-> url,
     isNew |-> isNew, installed |-> installed, canPush |-> canPush, cells |-> NoCells]

\* The cells a suspended save() holds, each as <<row id, td>>: td tells the
\* td elements one row has had apart.
HeldCells == {t.cell : t \in BagToSet(tasks)}

\* The td of the cells a new innerHTML creates in the row id: elements that
\* no save() holds.
NewTd(id) ==
    CHOOSE g \in 1..(Cardinality(HeldCells) + 1) :
        /\ <<id, g>> \notin HeldCells
        /\ \A h \in 1..(g - 1) : <<id, h>> \in HeldCells

\* UI.patchRepoRow: innerHTML is rewritten only when it differs, and the
\* cells it creates are new elements.
patchRepoRow(tr, repo, installed) ==
    [tr EXCEPT !.cells = IF [tr.cells EXCEPT !.td = 0] # renderRepoRow(repo)
                         THEN [renderRepoRow(repo) EXCEPT !.td = NewTd(tr.id)]
                         ELSE tr.cells,
               !.key = buildRowKey(repo), !.name = repo.name, !.url = repo.url,
               !.isNew = repo.is_new_project, !.installed = installed,
               !.canPush = repo.can_push]

IsActionAt(tb, i) == i >= 1 /\ i <= Len(tb) /\ tb[i].tag = "action"

IsRowAt(tb, i) == i >= 1 /\ i <= Len(tb) /\ tb[i].tag = "row"

\* The ids of the rows whose logo cell is active, in document order.
ActiveIds(tb) ==
    LET idx == SelectSeq([i \in 1..Len(tb) |-> i],
                         LAMBDA i : tb[i].tag = "row" /\ tb[i].cells.active)
    IN  [k \in 1..Len(idx) |-> tb[idx[k]].id]

\* A collapse that leaves the action row in the table.
CollapseCellOnly(tb, i) == [tb EXCEPT ![i].cells.active = FALSE]

\* One step of closeAllActionRows, closeActionRow and the collapsing branch
\* of openActionRow: the cell loses 'active' and the row's next sibling is
\* removed if it is an action row.
CollapseAt(tb, i) ==
    LET off == [tb EXCEPT ![i].cells.active = FALSE]
    IN  IF IsActionAt(off, i + 1) THEN RemoveAt(off, i + 1) ELSE off

RECURSIVE CollapseIds(_, _, _)
CollapseIds(tb, ids, exceptId) ==
    IF ids = <<>> THEN tb
    ELSE IF Head(ids) = exceptId \/ IndexOfId(tb, Head(ids)) = 0
         THEN CollapseIds(tb, Tail(ids), exceptId)
    ELSE CollapseIds(CollapseAt(tb, IndexOfId(tb, Head(ids))), Tail(ids), exceptId)

\* A closeAllActionRows that returns at once when a cell is excepted.
closeAllUnlessExcepted(tb, exceptId) ==
    IF exceptId # 0 THEN tb ELSE CollapseIds(tb, ActiveIds(tb), 0)

\* UI.closeAllActionRows(exceptCell); exceptId = 0 for no exception.
closeAllActionRows(tb, exceptId) == CollapseIds(tb, ActiveIds(tb), exceptId)

\* An id no node of tb and no node of old has: the identity of a new node.
FreshId(tb, old) ==
    LET used == {tb[i].id : i \in 1..Len(tb)} \cup {old[i].id : i \in 1..Len(old)}
    IN  CHOOSE n \in 1..(Cardinality(used) + 1) : n \notin used

\* An openActionRow that leaves the panels of the other rows as they are.
openWithoutClosing(tb, i) ==
    IF ~tb[i].cells.active
    THEN InsertAt([tb EXCEPT ![i].cells.active = TRUE], i + 1,
                  NewActionRow(FreshId(tb, tb), tb[i].cells.name, tb[i].cells.url,
                               tb[i].isNew, tb[i].installed, tb[i].canPush))
    ELSE CollapseAt(tb, i)

\* UI.openActionRow(cell) for the logo cell of the row at index i.
openActionRow(tb, i) ==
    LET row == tb[i]
        closed == closeAllActionRows(tb, row.id)
        j == IndexOfId(closed, row.id)
    IN  IF ~row.cells.active
        THEN InsertAt([closed EXCEPT ![j].cells.active = TRUE], j + 1,
                      NewActionRow(FreshId(closed, tb), row.cells.name, row.cells.url,
                                   row.isNew, row.installed, row.canPush))
        ELSE CollapseAt(closed, j)

\* A closeActionRow that closes nothing.
keepActionRow(tb, url) == tb

\* closeActionRow(url): the first row with that data-url.
closeActionRow(tb, url) ==
    LET i == FirstIndex({k \in 1..Len(tb) : tb[k].tag = "row" /\ tb[k].url = url})
    IN  IF i = 0 THEN tb ELSE CollapseAt(tb, i)

(***************************************************************************)
(* View pipeline.                                                          *)
(***************************************************************************)
getSortedRepos(S, key, dir) == StableSort(S.repos, <<"view", key, dir>>)

ToLower(c) ==
    CASE c = "A" -> "a" [] c = "B" -> "b" [] c = "C" -> "c" [] c = "D" -> "d"
      [] OTHER -> c

LowerCase(s) == [i \in 1..Len(s) |-> ToLower(s[i])]

\* query.split(/\s+/).filter(Boolean)
RECURSIVE SplitTokens(_, _, _)
SplitTokens(s, current, acc) ==
    IF s = <<>> THEN (IF current = <<>> THEN acc ELSE Append(acc, current))
    ELSE IF Head(s) = " "
         THEN SplitTokens(Tail(s), <<>>,
                          IF current = <<>> THEN acc ELSE Append(acc, current))
    ELSE SplitTokens(Tail(s), Append(current, Head(s)), acc)

\* haystack.includes(token)
IsSubstring(token, hay) ==
    \E i \in 0..(Len(hay) - Len(token)) : SubSeq(hay, i + 1, i + Len(token)) = token

PrivateLabel == <<"p", "r", "i", "v", "a", "t", "e", " ", "l", "o", "c", "k">>

PublicLabel == <<"p", "u", "b", "l", "i", "c", " ", "g", "l", "o", "b", "e">>

LocalLabel == <<"l", "o", "c", "a", "l", " ", "f", "o", "l", "d", "e", "r">>

GithubLabel == <<"g", "i", "t", "h", "u", "b">>

\* A haystack of the record's own fields, without the two labels.
HaystackFields(repo) ==
    LowerCase(repo.name \o <<" ">> \o repo.description \o <<" ">> \o repo.url)

Haystack(repo) ==
    LET created == formatCreated(repo.created_at)
        unit(c) == IF c = "" THEN <<>> ELSE <<c>>
    IN  LowerCase(repo.name \o <<" ">> \o repo.description \o <<" ">> \o repo.url
                  \o <<" ">> \o unit(created.date) \o <<" ">> \o unit(created.time)
                  \o <<" ">> \o (IF repo.private THEN PrivateLabel ELSE PublicLabel)
                  \o <<" ">> \o (IF repo.is_new_project THEN LocalLabel ELSE GithubLabel))

getFilteredRepos(S, key, dir, q) ==
    LET query == LowerCase(Trim(q))
        tokens == SplitTokens(query, <<>>, <<>>)
    IN  IF query = <<>> THEN getSortedRepos(S, key, dir)
        ELSE SelectSeq(getSortedRepos(S, key, dir),
                       LAMBDA repo : \A t \in 1..Len(tokens) :
                                        IsSubstring(tokens[t], Haystack(repo)))

(***************************************************************************)
(* Renderer.                                                               *)
(***************************************************************************)
\* An existingRows that finds no row for any key.
NoMappedId(rows, key) == 0

\* existingRows.get(key): the Map keeps the last row of a key.
MappedId(rows, key) ==
    LET hits == {i \in 1..Len(rows) : rows[i].tag = "row" /\ rows[i].key = key}
    IN  IF hits = {} THEN 0 ELSE rows[CHOOSE i \in hits : \A j \in hits : j <= i].id

\* tbody.insertBefore(tr, currentAtIndex || null), tr not in the tree.
InsertBeforeId(tb, tr, beforeId) ==
    IF beforeId = 0 THEN Append(tb, tr) ELSE InsertAt(tb, IndexOfId(tb, beforeId), tr)

\* One round of the loop of renderTable, for the k-th desired record: rows are
\* the keyed rows found before the loop, old the tree before the render.
PlaceOne(tb, repos, k, rows, old, S) ==
    LET repo == repos[k]
        mid == MappedId(rows, buildRowKey(repo))
        at == IF mid = 0 THEN 0 ELSE IndexOfId(tb, mid)
        tr == IF at = 0 THEN NewRow(FreshId(tb, old)) ELSE tb[at]
        patched == patchRepoRow(tr, repo, isInstalled(S, repo))
        currentAtIndex == IF k <= Len(tb) THEN tb[k].id ELSE 0
    IN  IF currentAtIndex = tr.id THEN [tb EXCEPT ![k] = patched]
        ELSE InsertBeforeId(IF at = 0 THEN tb ELSE RemoveAt(tb, at),
                            patched, currentAtIndex)

\* The loop of renderTable over the desired records, from the k-th on.
RECURSIVE PlaceRows(_, _, _, _, _, _)
PlaceRows(tb, repos, k, rows, old, S) ==
    IF k > Len(repos) THEN tb
    ELSE PlaceRows(PlaceOne(tb, repos, k, rows, old, S), repos, k + 1, rows, old, S)

\* The k-th round calls insertBefore for a row that is in the tree: a move.
MovesAt(tb, repos, k, rows) ==
    LET mid == MappedId(rows, buildRowKey(repos[k]))
        at == IF mid = 0 THEN 0 ELSE IndexOfId(tb, mid)
    IN  at # 0 /\ at # k

\* The number of moves of the loop of renderTable, from the k-th round on.
RECURSIVE CountMoves(_, _, _, _, _, _)
CountMoves(tb, repos, k, rows, old, S) ==
    IF k > Len(repos) THEN 0
    ELSE (IF MovesAt(tb, repos, k, rows) THEN 1 ELSE 0)
         + CountMoves(PlaceOne(tb, repos, k, rows, old, S), repos, k + 1, rows, old, S)

\* renderTable up to its loop: the action rows are gone, and so are the rows
\* whose key is not desired.
KeptRows(S, tb, key, dir, q) ==
    LET rows == SelectSeq(closeAllActionRows(tb, 0), LAMBDA n : n.tag # "action")
        repos == getFilteredRepos(S, key, dir, q)
        desiredKeys == {buildRowKey(repos[i]) : i \in 1..Len(repos)}
    IN  SelectSeq(rows, LAMBDA n : ~(n.key \notin desiredKeys
                                     /\ MappedId(rows, n.key) = n.id))

\* UI.renderTable()
renderTable(S, tb, key, dir, q) ==
    LET actives == {i \in 1..Len(tb) : tb[i].tag = "row" /\ tb[i].cells.active}
        activeUrl == IF actives = {} THEN <<>> ELSE tb[FirstIndex(actives)].cells.url
        rows == SelectSeq(closeAllActionRows(tb, 0), LAMBDA n : n.tag # "action")
        repos == getFilteredRepos(S, key, dir, q)
        placed == PlaceRows(KeptRows(S, tb, key, dir, q), repos, 1, rows, tb, S)
        activeCell == FirstIndex({i \in 1..Len(placed) :
                        placed[i].tag = "row" /\ placed[i].cells.url = activeUrl})
    IN  IF activeUrl # <<>> /\ activeCell # 0 THEN openActionRow(placed, activeCell)
        ELSE placed

\* The number of rows a renderTable moves.
RenderMoves(S, tb, key, dir, q) ==
    LET rows == SelectSeq(closeAllActionRows(tb, 0), LAMBDA n : n.tag # "action")
    IN  CountMoves(KeptRows(S, tb, key, dir, q), getFilteredRepos(S, key, dir, q),
                   1, rows, tb, S)

\* State.getLaunchableRepos / State.getNextLaunchRepo: the next record to
\* launch, as a sequence of one record or none.
getLaunchableRepos(S) ==
    StableSort(SelectSeq(S.repos, LAMBDA r : r.rowNo > 0), <<"launch">>)

\* A getNextLaunchRepo that does not look at the row launched last.
getFirstLaunchRepo(S) ==
    IF getLaunchableRepos(S) = <<>> THEN <<>> ELSE <<getLaunchableRepos(S)[1]>>

getNextLaunchRepo(S) ==
    LET launchable == getLaunchableRepos(S)
        later == {i \in 1..Len(launchable) : launchable[i].rowNo > S.lastLaunchedRowNo}
    IN  IF launchable = <<>> THEN <<>>
        ELSE IF later # {} THEN <<launchable[FirstIndex(later)]>>
        ELSE <<launchable[1]>>

\* UI.updateHeader(): the texts of the navigation bar; next = 0 shows '-'.
updateHeader(S) ==
    [username |-> IF S.username = "" THEN "-" ELSE S.username,
     repos |-> S.count, installed |-> S.installedCount,
     localOnly |-> S.localOnlyCount,
     next |-> IF getNextLaunchRepo(S) = <<>> THEN 0 ELSE getNextLaunchRepo(S)[1].rowNo,
     avatar |-> S.avatarUrl]

(***************************************************************************)
(* Suspended handlers.  A task is an async function stopped at an await:   *)
(* kind names the handler, pc the call or prompt it waits for, the other   *)
(* fields are the values its closure holds.  target is no value of the     *)
(* program and no action reads it.  In a push it keeps the identity of the *)
(* record the push was dispatched for, so that a property can follow the   *)
(* record through a change of its name or url; in a launch it is 1 when    *)
(* the install call was answered while the fetches of a reload were under  *)
(* way.                                                                    *)
(***************************************************************************)
Task(kind, pc, name, url) ==
    [kind |-> kind, pc |-> pc, name |-> name, url |-> url, rowNo |-> 0,
     closeAfter |-> FALSE, ref |-> 0, text |-> <<>>, cell |-> <<0, 0>>,
     target |-> 0]

Put(ts, t) == ts (+) SetToBag({t})

Drop(ts, t) == ts (-) SetToBag({t})

Waiting(pc) == {t \in BagToSet(tasks) : t.pc = pc}

\* The fetches of a reload (State.init called by handleCreateProject) are
\* under way.
LoadInFlight == \E t \in Waiting("init") : t.kind = "createProject"

HeldRefs(ts) == {t.ref : t \in BagToSet(ts)} \ {0}

\* An input field of the table has the focus: input.focus() in makeEditable
\* and makeDescriptionEditable.
InputFocused ==
    \E i \in 1..Len(tbody) : tbody[i].tag = "row" /\ tbody[i].cells.focus # ""

\* A click is handled: the listeners are registered, and no input field has
\* the focus, because a press of the mouse outside a focused input makes
\* it lose the focus, and its blur listener runs, before the click.
CanClick ==
    /\ handlers
    /\ ~InputFocused

\* A user action that starts a remote call is possible.
CanDispatch ==
    /\ CanClick
    /\ BagCardinality(tasks) < MaxTasks
    /\ budget > 0

InitWith(calls) ==
    /\ State = StateAtConstruction
    /\ sortKey = "created_at"
    /\ sortDir = "desc"
    /\ search = <<>>
    /\ tbody = <<>>
    /\ welcome = ""
    /\ localStorage = [lastUrlRowNo |-> 0, localDescriptions |-> {}]
    /\ header = updateHeader(StateAtConstruction)
    /\ tasks = SetToBag({Task("bootstrapApp", "init", <<>>, <<>>)})
    /\ handlers = FALSE
    /\ budget = calls

\* The whole program is run with MaxWhole changes started by the user, a
\* part of it with MaxDispatched.
Init == InitWith(MaxWhole)

InitPart == InitWith(MaxDispatched)

\* Answers to a load in which a fetch resolves with an error body.
LoadErrorAnswers ==
    {<<ConfigError, ReposError>>,
     <<[ok |-> TRUE, username |-> "alice", avatar_url |-> "alice.png",
        installed_count |-> 1, default_push_message |-> <<"c">>,
        installed_urls |-> << <<"http://", "a", ".git">> >>], ReposError>>}

\* startup -> bootstrapApp -> refreshDataAndView(false): both fetches answered.
\* After the render the listeners are registered.
BootWith(answers) ==
    \E t \in Waiting("init"), answer \in answers :
        /\ t.kind = "bootstrapApp"
        /\ LET S == StateInitBody(State, answer[1], answer[2], localStorage,
                                  HeldRefs(Drop(tasks, t)))
           IN  /\ State' = S
               /\ header' = updateHeader(S)
               /\ tbody' = renderTable(S, tbody, sortKey, sortDir, search)
        /\ tasks' = Drop(tasks, t)
        /\ handlers' = TRUE
        /\ UNCHANGED <<sortKey, sortDir, search, welcome, localStorage, budget>>

BootLoaded == BootWith(LoadAnswers \cup LoadErrorAnswers)

\* A fetch of the first load is rejected: bootstrapApp reports it and returns
\* before it registers a listener.
BootFailed ==
    \E t \in Waiting("init") :
        /\ t.kind = "bootstrapApp"
        /\ tasks' = Drop(tasks, t)
        /\ welcome' = "Init failed"
        /\ UNCHANGED <<State, sortKey, sortDir, search, tbody, localStorage, header,
                       handlers, budget>>

\* A click on the logo, name or description cell of the row at index i.
ClickPrimaryCell ==
    \E i \in 1..Len(tbody) :
        /\ CanClick
        /\ tbody[i].tag = "row"
        /\ tbody' = openActionRow(tbody, i)
        /\ UNCHANGED <<State, sortKey, sortDir, search, welcome, localStorage, header,
                       tasks, handlers, budget>>

\* A click outside every primary cell and action row.
ClickOutside ==
    /\ CanClick
    /\ tbody' = closeAllActionRows(tbody, 0)
    /\ UNCHANGED <<State, sortKey, sortDir, search, welcome, localStorage, header,
                   tasks, handlers, budget>>

\* The column headers the model clicks.
HeaderClicks == {"name", "created_at"}

\* UI.setSort(key): the next sort direction.
NextSortDir(key) ==
    IF sortKey = key THEN (IF sortDir = "asc" THEN "desc" ELSE "asc")
    ELSE IF key = "created_at" THEN "desc" ELSE "asc"

\* The sort keys UI.getSortedRepos knows.
SortKeys == {"name", "description", "url", "created_at", "type"}

\* A click on a column header: UI.setSort(key), and then the document's
\* listener for outside clicks, which the same click reaches.
ClickHeaderOf(keys) ==
    \E key \in keys :
        /\ CanClick
        /\ sortKey' = key
        /\ sortDir' = NextSortDir(key)
        /\ tbody' = closeAllActionRows(
                        renderTable(State, tbody, key, NextSortDir(key), search), 0)
        /\ UNCHANGED <<State, search, welcome, localStorage, header, tasks, handlers,
                       budget>>

ClickHeader == ClickHeaderOf(HeaderClicks)

ClickAnyHeader == ClickHeaderOf(SortKeys)

\* The texts the model types into the search field.
SearchInputs == {<<>>, <<"l", "o", "c", "a", "l">>}

\* An input event of the search field.
SearchInputOf(inputs) ==
    \E q \in inputs :
        /\ CanClick
        /\ q # search
        /\ search' = q
        /\ tbody' = renderTable(State, tbody, sortKey, sortDir, q)
        /\ UNCHANGED <<State, sortKey, sortDir, welcome, localStorage, header, tasks,
                       handlers, budget>>

SearchInput == SearchInputOf(SearchInputs)

\* The filter texts 'priv repo', 'priv github' and 'github  priv'.
PrivRepo == <<"p", "r", "i", "v", " ", "r", "e", "p", "o">>

PrivGithub == <<"p", "r", "i", "v", " ", "g", "i", "t", "h", "u", "b">>

GithubPriv == <<"g", "i", "t", "h", "u", "b", " ", " ", "p", "r", "i", "v">>

FilterInputs == {<<>>, PrivRepo, PrivGithub, GithubPriv}

TypeFilter == SearchInputOf(FilterInputs)

(***************************************************************************)
(* Launch: open in the editor, installing first when needed.               *)
(***************************************************************************)
\* The {name, url} object a listener builds from a dataset: is_new_project
\* is undefined in it, which State.isInstalled reads as false.
RepoArg(name, url) == [name |-> name, url |-> url, is_new_project |-> FALSE]

LaunchTask(pc, repo, rowNo, closeAfter) ==
    [Task("launch", pc, repo.name, repo.url) EXCEPT
        !.rowNo = rowNo, !.closeAfter = closeAfter]

\* What handleInstallConfirm changes in State before the install call is
\* answered: nothing.
InstallAtDispatch(S, repo) == S

\* launchRepoFromUrlAction(repo, rowNo, isLocal) up to its first await, from
\* the table tb its caller left.
LaunchStart(repo, rowNo, isLocal, closeAfter, tb) ==
    IF repo.url = <<>>
    THEN /\ tbody' = IF closeAfter THEN closeActionRow(tb, repo.url) ELSE tb
         /\ UNCHANGED <<State, header, tasks, welcome, budget>>
    ELSE IF isLocal \/ isInstalled(State, repo)
    THEN /\ tasks' = Put(tasks, LaunchTask("openFolder", repo, rowNo, closeAfter))
         /\ budget' = budget - 1
         /\ tbody' = tb
         /\ UNCHANGED <<State, header, welcome>>
    ELSE /\ tasks' = Put(tasks, LaunchTask("installRepos", repo, rowNo, closeAfter))
         /\ budget' = budget - 1
         /\ welcome' = "Installing"
         /\ State' = InstallAtDispatch(State, repo)
         /\ tbody' = tb
         /\ UNCHANGED header

\* A click on the url link of the row at index i; the click also reaches the
\* listener for outside clicks.
ClickUrlLink ==
    \E i \in 1..Len(tbody) :
        /\ CanDispatch
        /\ tbody[i].tag = "row"
        /\ LaunchStart(RepoArg(tbody[i].name, tbody[i].cells.url), tbody[i].cells.rowNo,
                       tbody[i].cells.isLocal, FALSE, closeAllActionRows(tbody, 0))
        /\ UNCHANGED <<sortKey, sortDir, search, localStorage, handlers>>

\* A click on the VSCode button of the action row at index p.
ClickOpenVscode ==
    \E p \in 1..Len(tbody) :
        /\ CanDispatch
        /\ tbody[p].tag = "action"
        /\ LaunchStart(RepoArg(tbody[p].name, tbody[p].url),
                       IF IsRowAt(tbody, p - 1) THEN tbody[p - 1].cells.rowNo ELSE 0,
                       IF IsRowAt(tbody, p - 1) THEN tbody[p - 1].isNew ELSE FALSE,
                       TRUE, tbody)
        /\ UNCHANGED <<sortKey, sortDir, search, localStorage, handlers>>

\* A click on the 'Next' counter: launchNextFromLastOpened, and the listener
\* for outside clicks.
ClickLaunchNext ==
    LET next == getNextLaunchRepo(State)
    IN  /\ CanDispatch
        /\ IF next = <<>>
           THEN /\ welcome' = "No projects available"
                /\ tbody' = closeAllActionRows(tbody, 0)
                /\ UNCHANGED <<State, header, tasks, budget>>
           ELSE LaunchStart(RepoArg(next[1].name, next[1].url), next[1].rowNo,
                            next[1].is_new_project, FALSE, closeAllActionRows(tbody, 0))
        /\ UNCHANGED <<sortKey, sortDir, search, localStorage, handlers>>

\* An install that adds the URL and leaves the counters as they were.
InstallAppliedStale(S, repo) ==
    [S EXCEPT !.installedUrls = @ \cup {normalizeRepoUrl(repo.url)}]

\* The statements of handleInstallConfirm after a successful install call.
InstallApplied(S, repo) ==
    recalcStateCounters([S EXCEPT !.installedUrls = @ \cup {normalizeRepoUrl(repo.url)}])

\* The remote install succeeds: the record is installed, the table rendered,
\* the row collapsed; launchRepoFromUrlAction goes on to open the folder.
InstallSucceeds ==
    \E t \in Waiting("installRepos") :
        /\ LET S == InstallApplied(State, t)
           IN  /\ State' = S
               /\ header' = updateHeader(S)
               /\ tbody' = closeActionRow(renderTable(S, tbody, sortKey, sortDir, search),
                                          t.url)
        /\ welcome' = "Installed"
        /\ tasks' = Put(Drop(tasks, t),
                        [t EXCEPT !.pc = "openFolder",
                                  !.target = IF LoadInFlight THEN 1 ELSE 0])
        /\ UNCHANGED <<sortKey, sortDir, search, localStorage, handlers, budget>>

\* The statements after launchRepoFromUrlAction returns to the button's
\* listener: closeActionRow(repo.url).
AfterLaunch(task, tb) == IF task.closeAfter THEN closeActionRow(tb, task.url) ELSE tb

\* A failed install that marks the record installed all the same.
InstallFailedApplied(S, repo) == InstallApplied(S, repo)

\* What the catch branch of handleInstallConfirm changes in State: nothing.
InstallFailed(S, repo) == S

\* The remote install fails: handleInstallConfirm returns false.
InstallFails ==
    \E t \in Waiting("installRepos") :
        /\ State' = InstallFailed(State, t)
        /\ welcome' = "Install failed"
        /\ tbody' = AfterLaunch(t, tbody)
        /\ tasks' = Drop(tasks, t)
        /\ UNCHANGED <<sortKey, sortDir, search, localStorage, header, handlers,
                       budget>>

\* The open call succeeds: UI.markLastUrlLaunch(rowNo).
OpenSucceeds ==
    \E t \in Waiting("openFolder") \cup Waiting("openFolderRetry") :
        /\ State' = [State EXCEPT !.lastLaunchedRowNo = t.rowNo]
        /\ localStorage' = [localStorage EXCEPT !.lastUrlRowNo = t.rowNo]
        /\ header' = updateHeader(State')
        /\ welcome' = "Opened in VS Code"
        /\ tbody' = AfterLaunch(t, tbody)
        /\ tasks' = Drop(tasks, t)
        /\ UNCHANGED <<sortKey, sortDir, search, handlers, budget>>

\* The messages of the errors an open call fails with: a message is a
\* sequence of phrases, and toLowerCase maps each phrase to its lower case.
OpenErrors == {<<"HTTP 500">>, <<"Folder not found">>}

PhraseToLower(phrase) ==
    CASE phrase = "HTTP 500" -> "http 500"
      [] phrase = "Folder not found" -> "folder not found"
      [] OTHER -> phrase

\* An isTransientOpenError for which every error is transient.
isAnyOpenError(err) == TRUE

isTransientOpenError(err) ==
    \E i \in 1..Len(err) :
        PhraseToLower(err[i]) \in {"http 500", "internal server error", "failed to fetch",
                                   "networkerror", "network error", "aborterror"}

\* openWithRetry: a transient failure of the first call starts the delay.
OpenFailsTransient ==
    \E t \in Waiting("openFolder"), err \in OpenErrors :
        /\ isTransientOpenError(err)
        /\ tasks' = Put(Drop(tasks, t), [t EXCEPT !.pc = "delay", !.text = err])
        /\ UNCHANGED <<State, sortKey, sortDir, search, tbody, welcome, localStorage,
                       header, handlers, budget>>

\* The delay is over: the open call is issued a second time.
OpenRetried ==
    \E t \in Waiting("delay") :
        /\ tasks' = Put(Drop(tasks, t), [t EXCEPT !.pc = "openFolderRetry"])
        /\ UNCHANGED <<State, sortKey, sortDir, search, tbody, welcome, localStorage,
                       header, handlers, budget>>

\* A failure of the first call that is not transient, or a failure of the
\* second call.
OpenFails ==
    \E t \in Waiting("openFolder") \cup Waiting("openFolderRetry"), err \in OpenErrors :
        /\ t.pc = "openFolder" => ~isTransientOpenError(err)
        /\ welcome' = "Open failed"
        /\ tbody' = AfterLaunch(t, tbody)
        /\ tasks' = Drop(tasks, t)
        /\ UNCHANGED <<State, sortKey, sortDir, search, localStorage, header, handlers,
                       budget>>

(***************************************************************************)
(* The buttons of an action row, templateApi.renderActionButtons.          *)
(***************************************************************************)
HasButton(panel, action) ==
    IF panel.isNew
    THEN \/ action \in {"open-vscode", "open-folder", "edit-name", "edit-description",
                        "add-to-github", "delete"}
         \/ action = "push" /\ panel.canPush
    ELSE IF panel.installed
    THEN \/ action \in {"open-vscode", "open-folder", "delete", "edit-name",
                        "edit-description", "delete-github"}
         \/ action = "push" /\ panel.canPush
         \/ action = "open-repository" /\ isHttpUrl(panel.url)
    ELSE \/ action \in {"open-vscode", "edit-name", "edit-description", "delete-github"}
         \/ action = "open-repository" /\ isHttpUrl(panel.url)

\* The indexes of the action rows that show a button for the action.
PanelsWith(action) ==
    {p \in 1..Len(tbody) : tbody[p].tag = "action" /\ HasButton(tbody[p], action)}

FirstRowWithUrl(tb, url) ==
    FirstIndex({k \in 1..Len(tb) : tb[k].tag = "row" /\ tb[k].url = url})

\* The indexes of the records State.repos.find / filter match by name and url.
Matching(repos, name, url) ==
    {i \in 1..Len(repos) : repos[i].name = name /\ repos[i].url = url}

\* The identity of the record Array.prototype.find returns for the indexes S
\* of the records that pass its test, or 0.
RefOfFirst(repos, S) == IF S = {} THEN 0 ELSE repos[FirstIndex(S)].ref

(***************************************************************************)
(* Push.                                                                   *)
(***************************************************************************)
\* UI.patchActionRowForRepo(repoUrl): the action row after the first row with
\* that url is rendered again from the row's dataset.
patchActionRowForRepo(tb, url) ==
    LET i == FirstRowWithUrl(tb, url)
    IN  IF i = 0 \/ ~IsActionAt(tb, i + 1) THEN tb
        ELSE [tb EXCEPT ![i + 1] = NewActionRow(tb[i + 1].id, tb[i].name, tb[i].url,
                                                tb[i].isNew, tb[i].installed,
                                                tb[i].canPush)]

\* setRepoCanPush(repo, canPush), its part in the table ...
setRepoCanPushRow(tb, repo, value) ==
    LET i == FirstRowWithUrl(tb, repo.url)
        marked == IF i = 0 THEN tb
                  ELSE [tb EXCEPT ![i].canPush = value, ![i].cells.hasUnpushed = value]
    IN  patchActionRowForRepo(marked, repo.url)

\* A setRepoCanPush that forgets the record in State.
setRepoCanPushRowOnly(S, repo, value) == S

\* ... and its part in State: the first record with that name and url.
setRepoCanPush(S, repo, value) ==
    LET i == FirstIndex(Matching(S.repos, repo.name, repo.url))
    IN  IF i = 0 THEN S ELSE [S EXCEPT !.repos[i].can_push = value]

\* A click on the Push button of the action row at index p: handlePushConfirm
\* up to its await.
ClickPush ==
    \E p \in PanelsWith("push") :
        LET repo == RepoArg(tbody[p].name, tbody[p].url)
        IN  /\ CanDispatch
            /\ tbody' = setRepoCanPushRow(closeActionRow(tbody, repo.url), repo, FALSE)
            /\ State' = setRepoCanPush(State, repo, FALSE)
            /\ welcome' = "Pushing"
            /\ tasks' = Put(tasks,
                  [Task("push", "pushRepo", repo.name, repo.url) EXCEPT
                      !.target = RefOfFirst(State.repos,
                                            Matching(State.repos, repo.name, repo.url))])
            /\ budget' = budget - 1
            /\ UNCHANGED <<sortKey, sortDir, search, localStorage, header, handlers>>

PushSucceeds ==
    \E t \in Waiting("pushRepo") :
        /\ welcome' = "Push completed"
        /\ tasks' = Drop(tasks, t)
        /\ UNCHANGED <<State, sortKey, sortDir, search, tbody, localStorage, header,
                       handlers, budget>>

PushFails ==
    \E t \in Waiting("pushRepo") :
        /\ tbody' = setRepoCanPushRow(tbody, t, TRUE)
        /\ State' = setRepoCanPush(State, t, TRUE)
        /\ welcome' = "Push failed"
        /\ tasks' = Drop(tasks, t)
        /\ UNCHANGED <<sortKey, sortDir, search, localStorage, header, handlers, budget>>

(***************************************************************************)
(* Delete, behind the confirmation prompt.                                 *)
(***************************************************************************)
\* A ConfirmDialog.open that closes a pending prompt with 'yes': the handler
\* that waited for it goes on to its delete call.
OpenPromptYes(kind, repo) ==
    Put(IF Waiting("confirm") = {} THEN tasks
        ELSE LET old == CHOOSE t \in Waiting("confirm") : TRUE
             IN  Put(Drop(tasks, old),
                     [old EXCEPT !.pc = IF old.kind = "delete" THEN "deleteRepos"
                                        ELSE "deleteGithubRepo"]),
        Task(kind, "confirm", repo.name, repo.url))

\* ConfirmDialog.open: a prompt that is still pending is closed with 'no'
\* first, which ends the handler that waited for it.
OpenPrompt(kind, repo) ==
    Put(IF Waiting("confirm") = {} THEN tasks
        ELSE Drop(tasks, CHOOSE t \in Waiting("confirm") : TRUE),
        Task(kind, "confirm", repo.name, repo.url))

\* A click on Local Delete or Delete Repository of the action row at index p.
ClickDelete ==
    \E kind \in {"delete", "delete-github"} :
        \E p \in PanelsWith(kind) :
            /\ CanClick
            /\ budget > 0
            /\ BagCardinality(tasks) < MaxTasks \/ Waiting("confirm") # {}
            /\ tasks' = OpenPrompt(kind, RepoArg(tbody[p].name, tbody[p].url))
            /\ UNCHANGED <<State, sortKey, sortDir, search, tbody, welcome, localStorage,
                           header, handlers, budget>>

\* The prompt is answered 'no': by its Cancel button or the Escape key, or by
\* a click on its overlay, which also reaches the listener for outside clicks.
ConfirmNo ==
    \E t \in Waiting("confirm"), onOverlay \in BOOLEAN :
        /\ tasks' = Drop(tasks, t)
        /\ tbody' = IF onOverlay /\ handlers THEN closeAllActionRows(tbody, 0) ELSE tbody
        /\ UNCHANGED <<State, sortKey, sortDir, search, welcome, localStorage, header,
                       handlers, budget>>

\* The prompt is answered 'yes': the delete call is issued.
ConfirmYes ==
    \E t \in Waiting("confirm") :
        /\ budget > 0
        /\ welcome' = "Deleting"
        /\ tasks' = Put(Drop(tasks, t),
                        [t EXCEPT !.pc = IF t.kind = "delete" THEN "deleteRepos"
                                         ELSE "deleteGithubRepo"])
        /\ budget' = budget - 1
        /\ UNCHANGED <<State, sortKey, sortDir, search, tbody, localStorage, header,
                       handlers>>

RemoveDescription(map, name) == {p \in map : p[1] # name}

\* removeLocalDescription(name); the key is the trimmed name, and an empty
\* key changes nothing.
removeLocalDescription(ls, name) ==
    IF Trim(name) = <<>> THEN ls
    ELSE [ls EXCEPT !.localDescriptions = RemoveDescription(@, Trim(name))]

Without(repos, name, url) ==
    SelectSeq(repos, LAMBDA r : ~(r.name = name /\ r.url = url))

\* The statements of handleDeleteConfirm after a successful delete call; ls
\* is localStorage after removeLocalDescription.
DeleteApplied(S, repo, ls) ==
    LET cleared == [S EXCEPT !.installedUrls = @ \ {normalizeRepoUrl(repo.url)}]
    IN  recalcStateCounters(
            IF Includes(repo.url, "NEW_PROJECTS")
            THEN [cleared EXCEPT !.localDescriptions = ls.localDescriptions,
                                 !.repos = Without(@, repo.name, repo.url)]
            ELSE cleared)

DeleteSucceeds ==
    \E t \in Waiting("deleteRepos") :
        LET ls == IF Includes(t.url, "NEW_PROJECTS")
                  THEN removeLocalDescription(localStorage, t.name) ELSE localStorage
            S == DeleteApplied(State, t, ls)
        IN  /\ localStorage' = ls
            /\ State' = S
            /\ header' = updateHeader(S)
            /\ tbody' = closeActionRow(renderTable(S, tbody, sortKey, sortDir, search),
                                       t.url)
            /\ welcome' = "Deleted"
            /\ tasks' = Drop(tasks, t)
            /\ UNCHANGED <<sortKey, sortDir, search, handlers, budget>>

\* The statements of handleDeleteGithubConfirm after a successful call.
DeleteGithubApplied(S, repo) ==
    recalcStateCounters([S EXCEPT !.repos = Without(@, repo.name, repo.url)])

DeleteGithubSucceeds ==
    \E t \in Waiting("deleteGithubRepo") :
        LET S == DeleteGithubApplied(State, t)
        IN  /\ State' = S
            /\ header' = updateHeader(S)
            /\ tbody' = closeActionRow(renderTable(S, tbody, sortKey, sortDir, search),
                                       t.url)
            /\ welcome' = "Deleted from GitHub"
            /\ tasks' = Drop(tasks, t)
            /\ UNCHANGED <<sortKey, sortDir, search, localStorage, handlers, budget>>

\* Either delete call fails: the notice is all that changes.
DeleteFails ==
    \E t \in Waiting("deleteRepos") \cup Waiting("deleteGithubRepo") :
        /\ welcome' = IF t.kind = "delete" THEN "Delete failed" ELSE "GitHub delete failed"
        /\ tasks' = Drop(tasks, t)
        /\ UNCHANGED <<State, sortKey, sortDir, search, tbody, localStorage, header,
                       handlers, budget>>

(***************************************************************************)
(* Publish (Add to GitHub).                                                *)
(***************************************************************************)
Visibilities == {"public", "private"}

\* r.repo of a successful answer for a project name: absent, or the clone
\* url of the new repository.
PublishAnswers(name) == {<<>>, <<"http://">> \o name \o <<".git">>}

\* A click on Add to GitHub of the action row at index p, with the visibility
\* select at vis: handleAddToGithubConfirm up to its await.  The task keeps
\* sourceRepo, the record object found now.
ClickAddToGithub ==
    \E p \in PanelsWith("add-to-github"), vis \in Visibilities :
        LET repo == RepoArg(tbody[p].name, tbody[p].url)
            found == FirstIndex(Matching(State.repos, repo.name, repo.url))
        IN  /\ CanDispatch
            /\ tbody' = closeActionRow(tbody, repo.url)
            /\ welcome' = "Creating GitHub repository"
            /\ tasks' = Put(tasks, [Task("addToGithub", "addToGithub", repo.name, repo.url)
                                    EXCEPT !.ref = IF found = 0 THEN 0
                                                   ELSE State.repos[found].ref,
                                           !.text = <<vis>>])
            /\ budget' = budget - 1
            /\ UNCHANGED <<State, sortKey, sortDir, search, localStorage, header,
                           handlers>>

\* const normalizedUrl = ...
PublishedUrl(repoUrl) ==
    IF Trim(repoUrl) = <<>> THEN <<>>
    ELSE normalizeRepoUrl(IF Head(Trim(repoUrl)) = "http://" THEN Trim(repoUrl)
                          ELSE <<"http://">> \o Trim(repoUrl))

\* The statements of handleAddToGithubConfirm after a successful call.
PublishApplied(S, task, repoUrl, ls) ==
    LET url == PublishedUrl(repoUrl)
        flipped(r) == [r EXCEPT !.is_new_project = FALSE,
                                !.private = (task.text = <<"private">>),
                                !.can_push = FALSE,
                                !.url = IF url # <<>> THEN url ELSE @]
    IN  recalcStateCounters(
            [S EXCEPT !.localDescriptions = ls.localDescriptions,
                      !.repos = [i \in 1..Len(@) |->
                                    IF task.ref # 0 /\ @[i].ref = task.ref
                                    THEN flipped(@[i]) ELSE @[i]],
                      !.installedUrls = IF url # <<>> THEN @ \cup {url} ELSE @])

PublishSucceeds ==
    \E t \in Waiting("addToGithub") :
        \E repoUrl \in PublishAnswers(t.name) :
            LET ls == removeLocalDescription(localStorage, t.name)
                S == PublishApplied(State, t, repoUrl, ls)
            IN  /\ localStorage' = ls
                /\ State' = S
                /\ header' = updateHeader(S)
                /\ tbody' = renderTable(S, tbody, sortKey, sortDir, search)
                /\ welcome' = "Added to GitHub"
                /\ tasks' = Drop(tasks, t)
                /\ UNCHANGED <<sortKey, sortDir, search, handlers, budget>>

\* A catch branch that leaves the record flipped to published.
PublishFailedFlipped(S, task) ==
    [S EXCEPT !.repos = [i \in 1..Len(@) |->
        IF task.ref # 0 /\ @[i].ref = task.ref
        THEN [@[i] EXCEPT !.is_new_project = FALSE, !.can_push = FALSE] ELSE @[i]]]

\* What the catch branch of handleAddToGithubConfirm changes in State:
\* nothing.
PublishFailed(S, task) == S

PublishFails ==
    \E t \in Waiting("addToGithub") :
        /\ State' = PublishFailed(State, t)
        /\ welcome' = "Add to GitHub failed"
        /\ tasks' = Drop(tasks, t)
        /\ UNCHANGED <<sortKey, sortDir, search, tbody, localStorage, header,
                       handlers, budget>>

(***************************************************************************)
(* Rename and description edit, through the inline input field.            *)
(***************************************************************************)
\* A click on Edit Name or Edit About of the action row at index p:
\* makeEditable / makeDescriptionEditable put an input into the cell of the
\* row before it.  The closure keeps the cell's data-repo and data-url and
\* the row's kind, which stay as they are while the input is in the cell.
ClickEdit ==
    \E action \in {"edit-name", "edit-description"} :
        \E p \in PanelsWith(action) :
            /\ CanClick
            /\ IsRowAt(tbody, p - 1)
            /\ tbody' = IF action = "edit-name"
                        THEN [tbody EXCEPT ![p - 1].cells.editName = TRUE,
                                           ![p - 1].cells.focus = "name"]
                        ELSE [tbody EXCEPT ![p - 1].cells.editDescription = TRUE,
                                           ![p - 1].cells.focus = "description"]
            /\ UNCHANGED <<State, sortKey, sortDir, search, welcome, localStorage,
                           header, tasks, handlers, budget>>

\* The Escape key in an input field: cell.textContent = original.
EscapeEdit ==
    \E i \in 1..Len(tbody) :
        /\ handlers
        /\ tbody[i].tag = "row"
        /\ \/ /\ tbody[i].cells.focus = "name"
              /\ tbody' = [tbody EXCEPT ![i].cells.editName = FALSE,
                                        ![i].cells.focus = ""]
           \/ /\ tbody[i].cells.focus = "description"
              /\ tbody' = [tbody EXCEPT ![i].cells.editDescription = FALSE,
                                        ![i].cells.focus = ""]
        /\ UNCHANGED <<State, sortKey, sortDir, search, welcome, localStorage, header,
                       tasks, handlers, budget>>

\* The texts the model types into a name field and a description field.
NameInputs == {<<"b", " ">>, <<" ">>}

DescriptionInputs == {<<>>, <<"d">>}

\* The name field of the row at index i loses the focus with the text typed:
\* save() of makeEditable up to its await.  An empty or unchanged name puts
\* the original text back and calls nothing.
BlurName ==
    \E i \in 1..Len(tbody), typed \in NameInputs :
        LET cells == tbody[i].cells
            newName == Trim(typed)
        IN  /\ handlers
            /\ tbody[i].tag = "row"
            /\ cells.focus = "name"
            /\ IF newName # <<>> /\ newName # cells.name
               THEN /\ BagCardinality(tasks) < MaxTasks
                    /\ budget > 0
                    /\ tasks' = Put(tasks,
                          [Task("rename", IF tbody[i].isNew THEN "renameLocal"
                                          ELSE "renameGithub", cells.name, cells.url)
                           EXCEPT !.text = newName, !.cell = <<tbody[i].id, cells.td>>])
                    /\ budget' = budget - 1
                    /\ tbody' = [tbody EXCEPT ![i].cells.focus = ""]
               ELSE /\ tbody' = [tbody EXCEPT ![i].cells.editName = FALSE,
                                              ![i].cells.focus = ""]
                    /\ UNCHANGED <<tasks, budget>>
            /\ UNCHANGED <<State, sortKey, sortDir, search, welcome, localStorage,
                           header, handlers>>

\* url.replace(new RegExp(`${escaped original}$`), newName)
RenamedUrl(url, original, newName) ==
    IF EndsWith(url, original)
    THEN SubSeq(url, 1, Len(url) - Len(original)) \o newName
    ELSE url

\* renameLocalDescription(oldName, newName)
renameLocalDescription(ls, oldName, newName) ==
    IF \/ Trim(oldName) = <<>> \/ Trim(newName) = <<>> \/ Trim(oldName) = Trim(newName)
       \/ ~HasDescription(ls.localDescriptions, Trim(oldName))
    THEN ls
    ELSE [ls EXCEPT !.localDescriptions =
            RemoveDescription(RemoveDescription(@, Trim(newName)), Trim(oldName))
            \cup {<<Trim(newName), DescriptionOf(@, Trim(oldName))>>}]

\* The indexes of the records State.repos.find(r => r.name === name) sees.
Named(repos, name) == {i \in 1..Len(repos) : repos[i].name = name}

\* const repoItem = State.repos.find(r => r.name === original)
RenameTarget(repos, task) == FirstIndex(Named(repos, task.name))

\* The statements of save() after a successful rename call; ls is
\* localStorage after renameLocalDescription.
RenameApplied(S, task, ls) ==
    LET i == RenameTarget(S.repos, task)
        described == IF task.pc = "renameLocal"
                     THEN [S EXCEPT !.localDescriptions = ls.localDescriptions] ELSE S
    IN  recalcStateCounters(
            IF i = 0 THEN described
            ELSE [described EXCEPT
                    !.repos[i].name = task.text,
                    !.repos[i].url = RenamedUrl(task.url, task.name, task.text)])

RenameSucceeds ==
    \E t \in Waiting("renameLocal") \cup Waiting("renameGithub") :
        LET ls == IF t.pc = "renameLocal"
                  THEN renameLocalDescription(localStorage, t.name, t.text)
                  ELSE localStorage
            S == RenameApplied(State, t, ls)
        IN  /\ localStorage' = ls
            /\ State' = S
            /\ header' = updateHeader(S)
            /\ tbody' = closeActionRow(renderTable(S, tbody, sortKey, sortDir, search),
                                       RenamedUrl(t.url, t.name, t.text))
            /\ welcome' = "Renamed"
            /\ tasks' = Drop(tasks, t)
            /\ UNCHANGED <<sortKey, sortDir, search, handlers, budget>>

\* cell.textContent = original, for the cell a failed save() holds: the
\* table shows it if the cell is still in the table.
RestoreCell(tb, task, field) ==
    LET i == FirstIndex({k \in 1..Len(tb) :
                 tb[k].tag = "row" /\ <<tb[k].id, tb[k].cells.td>> = task.cell})
    IN  IF i = 0 THEN tb
        ELSE IF field = "name" /\ tb[i].cells.editName
             THEN [tb EXCEPT ![i].cells.editName = FALSE,
                             ![i].cells.focus = IF @ = "name" THEN "" ELSE @]
        ELSE IF field = "description" /\ tb[i].cells.editDescription
             THEN [tb EXCEPT ![i].cells.editDescription = FALSE,
                             ![i].cells.focus = IF @ = "description" THEN "" ELSE @]
        ELSE tb

\* A catch branch of save() that leaves the input in the cell.
KeepCell(tb, task, field) == tb

\* The catch branch of save(), in the table.
RenameFailed(tb, task, field) == RestoreCell(tb, task, field)

RenameFails ==
    \E t \in Waiting("renameLocal") \cup Waiting("renameGithub") :
        /\ welcome' = "Rename failed"
        /\ tbody' = RenameFailed(tbody, t, "name")
        /\ tasks' = Drop(tasks, t)
        /\ UNCHANGED <<State, sortKey, sortDir, search, localStorage, header, handlers,
                       budget>>

\* setLocalDescription(name, description)
setLocalDescription(ls, name, description) ==
    IF Trim(name) = <<>> THEN ls
    ELSE [ls EXCEPT !.localDescriptions =
            RemoveDescription(@, Trim(name))
            \cup (IF description # <<>> THEN {<<Trim(name), description>>} ELSE {})]

\* repoItem.description = newDescription, for the record object held.
Described(S, ref, text) ==
    [S EXCEPT !.repos = [i \in 1..Len(@) |->
        IF ref # 0 /\ @[i].ref = ref THEN [@[i] EXCEPT !.description = text] ELSE @[i]]]

\* The description field of the row at index i loses the focus with the text
\* typed: save() of makeDescriptionEditable.  A local project is updated at
\* once, in localStorage; a repository waits for the remote call.
BlurDescription ==
    \E i \in 1..Len(tbody), typed \in DescriptionInputs :
        LET cells == tbody[i].cells
            text == Trim(typed)
            ref == RefOfFirst(State.repos, Named(State.repos, cells.name))
            ls == setLocalDescription(localStorage, cells.name, text)
            S == Described([State EXCEPT !.localDescriptions = ls.localDescriptions],
                           ref, text)
        IN  /\ handlers
            /\ tbody[i].tag = "row"
            /\ cells.focus = "description"
            /\ IF text = cells.description
               THEN /\ tbody' = [tbody EXCEPT ![i].cells.editDescription = FALSE,
                                              ![i].cells.focus = ""]
                    /\ UNCHANGED <<State, localStorage, welcome, tasks, budget>>
               ELSE IF tbody[i].isNew
               THEN /\ budget > 0
                    /\ localStorage' = ls
                    /\ State' = S
                    /\ tbody' = renderTable(S, tbody, sortKey, sortDir, search)
                    /\ welcome' = "Description updated"
                    /\ budget' = budget - 1
                    /\ UNCHANGED tasks
               ELSE /\ BagCardinality(tasks) < MaxTasks
                    /\ budget > 0
                    /\ tasks' = Put(tasks,
                          [Task("describe", "updateDescription", cells.name, cells.url)
                           EXCEPT !.text = text, !.ref = ref,
                                  !.cell = <<tbody[i].id, cells.td>>])
                    /\ budget' = budget - 1
                    /\ tbody' = [tbody EXCEPT ![i].cells.focus = ""]
                    /\ UNCHANGED <<State, localStorage, welcome>>
            /\ UNCHANGED <<sortKey, sortDir, search, header, handlers>>

DescribeSucceeds ==
    \E t \in Waiting("updateDescription") :
        LET S == Described(State, t.ref, t.text)
        IN  /\ State' = S
            /\ tbody' = renderTable(S, tbody, sortKey, sortDir, search)
            /\ welcome' = "Description updated"
            /\ tasks' = Drop(tasks, t)
            /\ UNCHANGED <<sortKey, sortDir, search, localStorage, header, handlers,
                           budget>>

DescribeFails ==
    \E t \in Waiting("updateDescription") :
        /\ welcome' = "Description update failed"
        /\ tbody' = RestoreCell(tbody, t, "description")
        /\ tasks' = Drop(tasks, t)
        /\ UNCHANGED <<State, sortKey, sortDir, search, localStorage, header, handlers,
                       budget>>

(***************************************************************************)
(* Create project, and the reload that follows it.                         *)
(***************************************************************************)
\* A click on the create button; the click also reaches the listener for
\* outside clicks.
ClickCreate ==
    /\ CanDispatch
    /\ tbody' = closeAllActionRows(tbody, 0)
    /\ welcome' = "Creating project"
    /\ tasks' = Put(tasks, Task("createProject", "createProject", <<>>, <<>>))
    /\ budget' = budget - 1
    /\ UNCHANGED <<State, sortKey, sortDir, search, localStorage, header, handlers>>

\* The create call succeeds: refreshDataAndView(false) starts State.init.
CreateSucceeds ==
    \E t \in Waiting("createProject") :
        /\ tasks' = Put(Drop(tasks, t), [t EXCEPT !.pc = "init"])
        /\ UNCHANGED <<State, sortKey, sortDir, search, tbody, welcome, localStorage,
                       header, handlers, budget>>

\* The create call fails, or a fetch of the reload is rejected: the catch of
\* handleCreateProject.
CreateFails ==
    \E t \in Waiting("createProject") \cup Waiting("init") :
        /\ t.kind = "createProject"
        /\ welcome' = "Create failed"
        /\ tasks' = Drop(tasks, t)
        /\ UNCHANGED <<State, sortKey, sortDir, search, tbody, localStorage, header,
                       handlers, budget>>

\* Both fetches of the reload are answered: State.init runs to its end, then
\* the header and the table are rendered.
ReloadedWith(answers) ==
    \E t \in Waiting("init"), answer \in answers :
        /\ t.kind = "createProject"
        /\ LET S == StateInitBody(State, answer[1], answer[2], localStorage,
                                  HeldRefs(Drop(tasks, t)))
           IN  /\ State' = S
               /\ header' = updateHeader(S)
               /\ tbody' = renderTable(S, tbody, sortKey, sortDir, search)
        /\ welcome' = "Project created"
        /\ tasks' = Drop(tasks, t)
        /\ UNCHANGED <<sortKey, sortDir, search, localStorage, handlers, budget>>

Reloaded == ReloadedWith(LoadAnswers \cup LoadErrorAnswers)

(***************************************************************************)
(* Live updates (import.meta.hot).  The updated template module renders    *)
(* what the old one did.  A page template without a value for the search   *)
(* field and without a notice is assumed, app.template.html not being part *)
(* of the sources at hand.  The model follows an update once the first     *)
(* load is over, and an update of the program itself when no handler is    *)
(* suspended.                                                              *)
(***************************************************************************)
\* captureUiSnapshot: the data-url of the first active logo cell, or ''.
captureUiSnapshot(tb) ==
    LET actives == {i \in 1..Len(tb) : tb[i].tag = "row" /\ tb[i].cells.active}
    IN  IF actives = {} THEN <<>> ELSE tb[FirstIndex(actives)].cells.url

\* restoreUiSnapshot: UI.openActionRow on the first logo cell with that url.
restoreUiSnapshot(tb, activeUrl) ==
    LET cell == FirstIndex({i \in 1..Len(tb) :
                    tb[i].tag = "row" /\ tb[i].cells.url = activeUrl})
    IN  IF activeUrl = <<>> \/ cell = 0 THEN tb ELSE openActionRow(tb, cell)

\* captureStateSnapshot: the fields of State, the repos array copied.
captureStateSnapshot(S) ==
    [username |-> S.username, avatarUrl |-> S.avatarUrl,
     installedCount |-> S.installedCount, repos |-> S.repos, count |-> S.count,
     installedUrls |-> S.installedUrls, localOnlyCount |-> S.localOnlyCount,
     lastLaunchedRowNo |-> S.lastLaunchedRowNo,
     localDescriptions |-> S.localDescriptions,
     defaultPushMessage |-> S.defaultPushMessage]

\* restoreStateSnapshot, applied to the State of the new program: an
\* undefined text becomes '', an undefined number 0, and the rows are
\* numbered again.
restoreStateSnapshot(snapshot) ==
    [username |-> IF snapshot.username = "undefined" THEN "" ELSE snapshot.username,
     avatarUrl |-> IF snapshot.avatarUrl = "undefined" THEN "" ELSE snapshot.avatarUrl,
     installedCount |-> IF snapshot.installedCount = -1 THEN 0
                        ELSE snapshot.installedCount,
     repos |-> recalcRowNumbers(snapshot.repos),
     count |-> snapshot.count,
     installedUrls |-> snapshot.installedUrls,
     localOnlyCount |-> snapshot.localOnlyCount,
     lastLaunchedRowNo |-> snapshot.lastLaunchedRowNo,
     localDescriptions |-> snapshot.localDescriptions,
     defaultPushMessage |-> snapshot.defaultPushMessage]

\* mountTemplate and bootstrapApp({skipDataReload: true, keepWelcome: true}),
\* then restoreUiSnapshot: the table of the new page.
Remounted(S, activeUrl) ==
    restoreUiSnapshot(renderTable(S, <<>>, sortKey, sortDir, <<>>), activeUrl)

\* The page template is updated: accept('./app.template.html?raw').
HotPageTemplate ==
    /\ Waiting("init") = {}
    /\ tbody' = Remounted(State, captureUiSnapshot(tbody))
    /\ search' = <<>>
    /\ welcome' = ""
    /\ header' = updateHeader(State)
    /\ handlers' = TRUE
    /\ UNCHANGED <<State, sortKey, sortDir, localStorage, tasks, budget>>

\* The row and panel templates are updated: accept('./ui.templates.js').
HotUiTemplates ==
    /\ Waiting("init") = {}
    /\ tbody' = restoreUiSnapshot(renderTable(State, tbody, sortKey, sortDir, search),
                                  captureUiSnapshot(tbody))
    /\ UNCHANGED <<State, sortKey, sortDir, search, welcome, localStorage, header,
                   tasks, handlers, budget>>

\* The program itself is updated: dispose() of the old program, startup() of
\* the new one with hotData.  The new UI object has the sort of a new page.
HotProgram ==
    /\ Waiting("init") = {}
    /\ tasks = EmptyBag
    /\ LET S == restoreStateSnapshot(captureStateSnapshot(State))
       IN  /\ State' = S
           /\ header' = updateHeader(S)
           /\ tbody' = restoreUiSnapshot(
                           renderTable(S, <<>>, "created_at", "desc", <<>>),
                           captureUiSnapshot(tbody))
    /\ sortKey' = "created_at"
    /\ sortDir' = "desc"
    /\ search' = <<>>
    /\ welcome' = ""
    /\ handlers' = TRUE
    /\ UNCHANGED <<localStorage, tasks, budget>>

(***************************************************************************)
(* First loads that draw what the collaborators answer from bounded sets.  *)
(***************************************************************************)
\* Every string of 1..n units over the alphabet.
StringsUpTo(alphabet, n) == UNION {[1..k -> alphabet] : k \in 1..n}

UrlUnits == {"a", ".git", "/"}

\* A first load that lists one repository under the URL u, installed.
UrlAnswers ==
    { <<[ok |-> TRUE, username |-> "alice", avatar_url |-> "alice.png",
         installed_count |-> 1, default_push_message |-> <<"c">>,
         installed_urls |-> <<u>>],
        [ok |-> TRUE,
         repos |-> <<Repo(<<"a">>, u, "1970-01-01T00:00:02Z", FALSE, FALSE, FALSE)>>,
         count |-> 1]>> : u \in StringsUpTo(UrlUnits, MaxUrlLen) }

BootUrls == BootWith(UrlAnswers)

GitUpperA == Repo(<<"A">>, <<"http://", "A">>, "1970-01-01T00:00:02Z", FALSE, FALSE, FALSE)

RowRecords == {LocalA, GitA, GitB, GitUpperA}

\* The arrays of up to MaxRows different records.
RowArrays ==
    {arr \in UNION {[1..k -> RowRecords] : k \in 0..MaxRows} :
        \A i, j \in DOMAIN arr : arr[i] = arr[j] => i = j}

\* A first load that lists the records of one of these arrays.
RowAnswers ==
    { <<[ok |-> TRUE, username |-> "alice", avatar_url |-> "alice.png",
         installed_count |-> 0, default_push_message |-> <<"c">>,
         installed_urls |-> <<>>],
        [ok |-> TRUE, repos |-> arr, count |-> Len(arr)]>> : arr \in RowArrays }

BootRows == BootWith(RowAnswers)

GitD == Repo(<<"d">>, <<"http://", "d">>, "1970-01-01T00:00:02Z", FALSE, TRUE, FALSE)

SortRecords == {LocalA, GitA, GitB, GitD}

\* A first load that lists up to MaxRows of these records in some order.
SortAnswers ==
    { <<[ok |-> TRUE, username |-> "alice", avatar_url |-> "alice.png",
         installed_count |-> 0, default_push_message |-> <<"c">>,
         installed_urls |-> <<>>],
        [ok |-> TRUE, repos |-> arr, count |-> Len(arr)]>> :
      arr \in {a \in UNION {[1..k -> SortRecords] : k \in 0..MaxRows} :
                  \A i, j \in DOMAIN a : a[i] = a[j] => i = j} }

BootSort == BootWith(SortAnswers)

\* Published records with a name and nothing else: {name, private}.
Bare(name, private) == Repo(name, <<>>, "", FALSE, private, FALSE)

FilterRecords == {Bare(<<"x">>, TRUE), Bare(<<"y">>, FALSE), LocalA, GitB}

\* A first load that lists up to MaxRows of these records in some order.
FilterAnswers ==
    { <<[ok |-> TRUE, username |-> "alice", avatar_url |-> "alice.png",
         installed_count |-> 0, default_push_message |-> <<"c">>,
         installed_urls |-> <<>>],
        [ok |-> TRUE, repos |-> arr, count |-> Len(arr)]>> :
      arr \in {a \in UNION {[1..k -> FilterRecords] : k \in 0..MaxRows} :
                  \A i, j \in DOMAIN a : a[i] = a[j] => i = j} }

BootFilter == BootWith(FilterAnswers)

\* A repository dated before the epoch and one without a readable date.
GitOld == Repo(<<"o">>, <<"http://", "o">>, "1969-12-31T23:59:58Z", FALSE, FALSE, FALSE)

GitUndated == Repo(<<"u">>, <<"http://", "u">>, "", FALSE, FALSE, FALSE)

DateRecords == {GitOld, GitUndated, GitB}

\* A first load that lists up to MaxRows of these records in some order.
DateAnswers ==
    { <<[ok |-> TRUE, username |-> "alice", avatar_url |-> "alice.png",
         installed_count |-> 0, default_push_message |-> <<"c">>,
         installed_urls |-> <<>>],
        [ok |-> TRUE, repos |-> arr, count |-> Len(arr)]>> :
      arr \in {a \in UNION {[1..k -> DateRecords] : k \in 0..MaxRows} :
                  \A i, j \in DOMAIN a : a[i] = a[j] => i = j} }

BootDates == BootWith(DateAnswers)

\* The steps every specification below has: the first load and the clicks
\* that open and close an action row.
Base ==
    \/ BootLoaded
    \/ BootFailed
    \/ ClickPrimaryCell
    \/ ClickOutside

\* Launch, install, push, delete and publish.
RemoteSteps ==
    \/ ClickUrlLink
    \/ ClickOpenVscode
    \/ ClickLaunchNext
    \/ InstallSucceeds
    \/ InstallFails
    \/ OpenSucceeds
    \/ OpenFailsTransient
    \/ OpenRetried
    \/ OpenFails
    \/ ClickPush
    \/ PushSucceeds
    \/ PushFails
    \/ ClickDelete
    \/ ConfirmNo
    \/ ConfirmYes
    \/ DeleteSucceeds
    \/ DeleteGithubSucceeds
    \/ DeleteFails
    \/ ClickAddToGithub
    \/ PublishSucceeds
    \/ PublishFails

\* The inline edits.
EditSteps ==
    \/ ClickEdit
    \/ EscapeEdit
    \/ BlurName
    \/ RenameSucceeds
    \/ RenameFails
    \/ BlurDescription
    \/ DescribeSucceeds
    \/ DescribeFails

\* Create project and the reload after it.
LoadSteps ==
    \/ ClickCreate
    \/ CreateSucceeds
    \/ CreateFails
    \/ Reloaded

\* The sort and filter controls.
ViewSteps ==
    \/ ClickHeader
    \/ SearchInput

Next ==
    \/ Base
    \/ RemoteSteps
    \/ EditSteps
    \/ LoadSteps
    \/ ViewSteps

NextRemote == Base \/ RemoteSteps

NextEdit == Base \/ EditSteps

NextLoad == Base \/ LoadSteps

NextView == Base \/ ViewSteps

\* The panel under the sort and filter controls and the remote changes.
NextPanel == Base \/ ViewSteps \/ RemoteSteps

\* The first load of a repository list with one URL, and the panel clicks.
NextNorm ==
    \/ BootUrls
    \/ BootFailed
    \/ ClickPrimaryCell
    \/ ClickOutside

\* The first load of a list of records in some order, and the panel clicks.
NextRows ==
    \/ BootRows
    \/ BootFailed
    \/ ClickPrimaryCell
    \/ ClickOutside

\* The first load of a list of records in some order, sorted by every column.
NextSort ==
    \/ BootSort
    \/ BootFailed
    \/ ClickPrimaryCell
    \/ ClickOutside
    \/ ClickAnyHeader

\* The first load of a list of records in some order, and the filter texts.
NextFilter ==
    \/ BootFilter
    \/ BootFailed
    \/ ClickPrimaryCell
    \/ ClickOutside
    \/ TypeFilter

\* The first load of a list of dated and undated records, sorted by every
\* column.
NextDates ==
    \/ BootDates
    \/ BootFailed
    \/ ClickPrimaryCell
    \/ ClickOutside
    \/ ClickAnyHeader

\* The panel, the view controls and the launches under live updates.
NextHot ==
    \/ NextView
    \/ ClickUrlLink
    \/ ClickLaunchNext
    \/ InstallSucceeds
    \/ InstallFails
    \/ OpenSucceeds
    \/ OpenFails
    \/ HotPageTemplate
    \/ HotUiTemplates
    \/ HotProgram

\* Push, with the rename and the publish that can change its record.
NextPush ==
    \/ Base
    \/ ClickPush
    \/ PushSucceeds
    \/ PushFails
    \/ ClickEdit
    \/ EscapeEdit
    \/ BlurName
    \/ RenameSucceeds
    \/ RenameFails
    \/ ClickAddToGithub
    \/ PublishSucceeds
    \/ PublishFails

\* Create project with its reload, and the launches that install.
NextStale ==
    \/ NextLoad
    \/ ClickUrlLink
    \/ InstallSucceeds
    \/ InstallFails
    \/ OpenSucceeds
    \/ OpenFails

\* No handler is suspended: the user waits for the answer to one change
\* before starting the next.
Quiet == tasks = EmptyBag

\* Publish, install and delete, one change at a time.
NextInTurn ==
    \/ BootLoaded
    \/ BootFailed
    \/ Quiet /\ ClickPrimaryCell
    \/ Quiet /\ ClickOutside
    \/ Quiet /\ ClickAddToGithub
    \/ PublishSucceeds
    \/ PublishFails
    \/ Quiet /\ ClickUrlLink
    \/ Quiet /\ ClickOpenVscode
    \/ InstallSucceeds
    \/ InstallFails
    \/ OpenSucceeds
    \/ OpenFails
    \/ Quiet /\ ClickDelete
    \/ ConfirmNo
    \/ ConfirmYes
    \/ DeleteSucceeds
    \/ DeleteGithubSucceeds
    \/ DeleteFails

\* The whole program; the specifications after it are its parts.
Spec == Init /\ [][Next]_vars

SpecPanel == Init /\ [][NextPanel]_vars

SpecNorm == InitPart /\ [][NextNorm]_vars

SpecRows == InitPart /\ [][NextRows]_vars

SpecRemote == InitPart /\ [][NextRemote]_vars

SpecEdit == InitPart /\ [][NextEdit]_vars

SpecLoad == InitPart /\ [][NextLoad]_vars

SpecView == InitPart /\ [][NextView]_vars

SpecInTurn == InitWith(MaxInTurn) /\ [][NextInTurn]_vars

SpecSort == InitPart /\ [][NextSort]_vars

SpecFilter == InitPart /\ [][NextFilter]_vars

SpecDates == InitPart /\ [][NextDates]_vars

SpecHot == Init /\ [][NextHot]_vars

SpecPush == InitPart /\ [][NextPush]_vars

SpecStale == InitPart /\ [][NextStale]_vars

(***************************************************************************)
(* Properties.                                                             *)
(***************************************************************************)
\* The calls that change a record on the remote side.
MutationCalls ==
    {"installRepos", "pushRepo", "deleteRepos", "deleteGithubRepo", "addToGithub",
     "renameLocal", "renameGithub", "updateDescription"}

SameKey(t, u) == t.name = u.name /\ t.url = u.url

\* A step in which a handler started to wait at pc, or stopped waiting there.
Started(t) == CopiesIn(t, tasks') > CopiesIn(t, tasks)

Ended(t) == CopiesIn(t, tasks') < CopiesIn(t, tasks)

TasksAt(pc) == {t \in BagToSet(tasks) \cup BagToSet(tasks') : t.pc = pc}

\* C1: at most one mutation per record key (name, url) waits for its remote
\* call at any time; a second action for a key with a pending mutation is
\* rejected and calls nothing, so two installs of one record submitted back
\* to back make one remote install call.
C1_OneMutationPerKey ==
    \A t \in BagToSet(tasks) :
        t.pc \in MutationCalls =>
            /\ CopiesIn(t, tasks) = 1
            /\ \A u \in BagToSet(tasks) :
                   u.pc \in MutationCalls /\ SameKey(t, u) => u = t

PanelNodes(tb) == {i \in 1..Len(tb) : tb[i].tag = "action"}

\* C2: in every reachable state at most one primary cell is active and the
\* table holds at most one action row.
C2_OnePanel ==
    /\ Len(ActiveIds(tbody)) <= 1
    /\ Cardinality(PanelNodes(tbody)) <= 1

\* An install completed while the panel of another row was open, and the
\* render that followed opened it again.
C2_PanelAfterRender ==
    /\ welcome = "Installed"
    /\ Len(ActiveIds(tbody)) = 1
    /\ Cardinality(PanelNodes(tbody)) = 1

\* C3: the step that dispatches an install and the step in which the remote
\* install fails both leave State (records, installed URLs, counters, row
\* numbers) as it was, and the handler of the failed install waits no more.
C3_FailedInstallKeepsState ==
    [][\A t \in TasksAt("installRepos") :
          /\ Started(t) => State' = State
          /\ (Ended(t) /\ welcome' = "Install failed") =>
                /\ State' = State
                /\ CopiesIn(t, tasks') = CopiesIn(t, tasks) - 1]_vars

\* An install failed, and the record it was for is not installed.
C3_InstallFailed ==
    /\ welcome = "Install failed"
    /\ \E i \in 1..Len(State.repos) :
           /\ ~State.repos[i].is_new_project
           /\ ~isInstalled(State, State.repos[i])

\* The counters agree with the records and the installed URLs.
CountersCurrent(S) ==
    /\ S.installedCount = Cardinality(S.installedUrls)
    /\ S.localOnlyCount = Cardinality(LocalOnlyIndexes(S.repos))
    /\ S.count = Len(S.repos) - Cardinality(LocalOnlyIndexes(S.repos))

CanPushOf(S, t) ==
    {S.repos[i].can_push : i \in {FirstIndex(Matching(S.repos, t.name, t.url))} \ {0}}

\* C5: the step that dispatches a push leaves the record's can_push false;
\* the step in which the push fails leaves it true; the step in which the
\* push succeeds leaves State as it was.
C5_PushClearsAndRestores ==
    [][\A t \in TasksAt("pushRepo") :
          /\ Started(t) => CanPushOf(State', t) = {FALSE}
          /\ (Ended(t) /\ welcome' = "Push failed") => CanPushOf(State', t) \subseteq {TRUE}
          /\ (Ended(t) /\ welcome' = "Push completed") => State' = State]_vars

\* A push failed and its record can be pushed again.
C5_PushFailed ==
    /\ welcome = "Push failed"
    /\ Waiting("pushRepo") = {}
    /\ \E i \in 1..Len(State.repos) : State.repos[i].can_push

\* The handlers that act on one record.
EntityKinds ==
    {"launch", "push", "delete", "delete-github", "addToGithub", "rename", "describe"}

Stored(r) == <<r.name, r.url, r.description, r.is_new_project, r.private, r.can_push>>

\* C6: a step in which a handler for the record with key (name, url) goes on
\* or ends changes no stored field of a record with another key, also when
\* the two records have the same name.
C6_FrameEffect ==
    [][\A t \in BagToSet(tasks) :
          (t.kind \in EntityKinds /\ Ended(t)) =>
              \A i \in 1..Len(State.repos) :
                  (State.repos[i].name # t.name \/ State.repos[i].url # t.url) =>
                      \E j \in 1..Len(State'.repos) :
                          /\ State'.repos[j].ref = State.repos[i].ref
                          /\ Stored(State'.repos[j]) = Stored(State.repos[i])]_vars

\* C7: a load that fails, by a rejected fetch or by an error answer, leaves
\* every field of State as it was.
C7_LoadAtomic ==
    [][(\/ BootWith(LoadErrorAnswers)
        \/ ReloadedWith(LoadErrorAnswers)
        \/ BootFailed
        \/ CreateFails) => State' = State]_vars

\* C8: the row numbers of the records are the numbers 1..N, each once.
C8_DenseRowNumbers ==
    {State.repos[i].rowNo : i \in 1..Len(State.repos)} = 1..Len(State.repos)

\* C9: recalcRowNumbers gives every record of State.repos the same row
\* number in whatever order the array holds the records.
C9_OrderIndependent ==
    \A f \in Permutations(1..Len(State.repos)) :
        LET shuffled == [i \in 1..Len(State.repos) |-> State.repos[f[i]]]
        IN  \A i \in 1..Len(State.repos) :
                recalcRowNumbers(shuffled)[i].rowNo
                    = recalcRowNumbers(State.repos)[f[i]].rowNo

\* C10: normalizing the URL of a record twice gives what normalizing it once
\* gives, and the record is installed under the one exactly if it is under
\* the other.
C10_NormalizeIdempotent ==
    \A i \in 1..Len(State.repos) :
        LET once == normalizeRepoUrl(State.repos[i].url)
        IN  /\ normalizeRepoUrl(once) = once
            /\ isInstalled(State, [State.repos[i] EXCEPT !.url = once])
                   = isInstalled(State, State.repos[i])

DeleteCalls == {"deleteRepos", "deleteGithubRepo"}

\* The number of delete calls in flight in a bag of tasks.
DeleteCallCount(ts) ==
    BagCardinality([t \in {u \in BagToSet(ts) : u.pc \in DeleteCalls} |-> CopiesIn(t, ts)])

C12_LocalDeleteRemoves ==
    [][\A t \in TasksAt("deleteRepos") :
          (Ended(t) /\ welcome' = "Deleted" /\ Includes(t.url, "NEW_PROJECTS")) =>
              LET visible == getFilteredRepos(State', sortKey', sortDir', search')
              IN  /\ Matching(State'.repos, t.name, t.url) = {}
                  /\ Matching(visible, t.name, t.url) = {}
                  /\ {State'.repos[i].rowNo : i \in 1..Len(State'.repos)}
                         = 1..Len(State'.repos)]_vars

\* The records of S with the name and url of a task that are published and
\* installed.
InstalledPublished(S, t) ==
    {i \in Matching(S.repos, t.name, t.url) :
        ~S.repos[i].is_new_project /\ isInstalled(S, S.repos[i])}

\* C13: the step in which the local delete of a published, installed record
\* succeeds keeps the record, with every stored field, and leaves it not
\* installed; the step in which the local delete fails leaves State as it
\* was, the record present and installed.
C13_LocalDeleteKeepsPublished ==
    [][\A t \in TasksAt("deleteRepos") :
          \A i \in InstalledPublished(State, t) :
              /\ (Ended(t) /\ welcome' = "Deleted") =>
                    \E j \in 1..Len(State'.repos) :
                        /\ State'.repos[j].ref = State.repos[i].ref
                        /\ Stored(State'.repos[j]) = Stored(State.repos[i])
                        /\ ~isInstalled(State', State'.repos[j])
              /\ (Ended(t) /\ welcome' = "Delete failed") =>
                    /\ State' = State
                    /\ i \in InstalledPublished(State', t)]_vars

\* The record save() renames, with the installed state it has before.
RenamedInstalled(S, t) ==
    {i \in {RenameTarget(S.repos, t)} \ {0} :
        ~S.repos[i].is_new_project /\ isInstalled(S, S.repos[i])}

\* C14: the step in which the rename of an installed repository succeeds
\* leaves the record installed: the installed set holds the normalized new
\* url and not the old one any more, and the record's row key is built from
\* the new name and url.
C14_RenameKeepsInstalled ==
    [][\A t \in TasksAt("renameGithub") :
          (Ended(t) /\ welcome' = "Renamed") =>
              \A i \in RenamedInstalled(State, t) :
                  \E j \in 1..Len(State'.repos) :
                      /\ State'.repos[j].ref = State.repos[i].ref
                      /\ State'.repos[j].name = t.text
                      /\ buildRowKey(State'.repos[j])
                             = t.text \o <<"|">> \o State'.repos[j].url
                      /\ isInstalled(State', State'.repos[j])
                      /\ normalizeRepoUrl(State.repos[i].url) \notin State'.installedUrls]_vars

\* The rows of a table that hold the cell of a task.
RowsOfCell(tb, t) ==
    {k \in 1..Len(tb) : tb[k].tag = "row" /\ <<tb[k].id, tb[k].cells.td>> = t.cell}

\* C15: the step in which a rename fails leaves State as it was (the name
\* and url of every record, the installed set, the row numbers), and the
\* name cell the edit was started in, if the table still holds it, shows the
\* original name and no input field.
C15_FailedRenameRestores ==
    [][\A t \in TasksAt("renameLocal") \cup TasksAt("renameGithub") :
          (Ended(t) /\ welcome' = "Rename failed") =>
              /\ State' = State
              /\ \A k \in RowsOfCell(tbody', t) :
                     /\ ~tbody'[k].cells.editName
                     /\ tbody'[k].cells.name = t.name
                     /\ tbody'[k].cells.focus # "name"]_vars

\* A rename failed: the record has its old name, and the row the edit was
\* started in shows the name again.
C15_RenameFailed ==
    /\ welcome = "Rename failed"
    /\ Waiting("renameLocal") \cup Waiting("renameGithub") = {}
    /\ \E k \in 1..Len(tbody) :
           /\ tbody[k].tag = "row"
           /\ tbody[k].cells.td # 0
           /\ ~tbody[k].cells.editName
           /\ Matching(State.repos, tbody[k].cells.name, tbody[k].cells.url) # {}
    /\ \A k \in 1..Len(tbody) : tbody[k].tag = "row" => ~tbody[k].cells.editName

\* The rows of a table that show a name and url ...
RowsShowing(tb, name, url) ==
    {k \in 1..Len(tb) : tb[k].tag = "row" /\ tb[k].cells.name = name
                                          /\ tb[k].cells.url = url}

\* ... and those of them whose panel is Expanded.
ExpandedRows(tb, name, url) == {k \in RowsShowing(tb, name, url) : tb[k].cells.active}

\* C16, as the spec states it: if the panel of the record is Expanded when
\* its rename succeeds, then after that step a row with the new name and url
\* is Expanded and its action row carries the new name and url.
C16_RenameKeepsPanel ==
    [][\A t \in TasksAt("renameLocal") \cup TasksAt("renameGithub") :
          (/\ Ended(t)
           /\ welcome' = "Renamed"
           /\ ExpandedRows(tbody, t.name, t.url) # {}) =>
              \E k \in ExpandedRows(tbody', t.text, RenamedUrl(t.url, t.name, t.text)) :
                  /\ IsActionAt(tbody', k + 1)
                  /\ tbody'[k + 1].name = t.text
                  /\ tbody'[k + 1].url = RenamedUrl(t.url, t.name, t.text)]_vars

\* C16, amended: the step in which a rename succeeds closes the panel of the
\* renamed record: after it no row with the new name and url is Expanded or
\* followed by an action row.
C16_RenameClosesPanel ==
    [][\A t \in TasksAt("renameLocal") \cup TasksAt("renameGithub") :
          (Ended(t) /\ welcome' = "Renamed") =>
              \A k \in RowsShowing(tbody', t.text, RenamedUrl(t.url, t.name, t.text)) :
                  /\ ~tbody'[k].cells.active
                  /\ ~IsActionAt(tbody', k + 1)]_vars

\* A rename to b succeeded: the table shows a row with the new name, and no
\* panel is Expanded.
C16_RenamedCollapsed ==
    /\ welcome = "Renamed"
    /\ \E k \in 1..Len(tbody) :
           /\ tbody[k].tag = "row"
           /\ tbody[k].cells.name = <<"b">>
           /\ EndsWith(tbody[k].cells.url, <<"b">>)
           /\ Matching(State.repos, tbody[k].cells.name, tbody[k].cells.url) # {}
    /\ ActiveIds(tbody) = <<>>
    /\ PanelNodes(tbody) = {}

\* The url of a record with its final segment, the record's name, replaced.
WithLastSegment(repo, newName) ==
    SubSeq(repo.url, 1, Len(repo.url) - Len(repo.name)) \o newName

\* C17: the step in which a rename succeeds gives the record that was
\* renamed, if its url ends in its old name, the new name and the url with
\* the same prefix and the new name as its final segment; this holds for the
\* record of the row the edit was made in and for every record the step
\* changes.
C17_RenamedUrlSegment ==
    [][\A t \in TasksAt("renameLocal") \cup TasksAt("renameGithub") :
          (Ended(t) /\ welcome' = "Renamed") =>
              \A i \in 1..Len(State.repos) :
                  \A j \in 1..Len(State'.repos) :
                      (/\ State'.repos[j].ref = State.repos[i].ref
                       /\ EndsWith(State.repos[i].url, State.repos[i].name)
                       /\ \/ i \in Matching(State.repos, t.name, t.url)
                          \/ Stored(State'.repos[j]) # Stored(State.repos[i])) =>
                          /\ State'.repos[j].name = t.text
                          /\ State'.repos[j].url = WithLastSegment(State.repos[i], t.text)]_vars

\* The records of S that are the object a publish handler holds.
HeldBy(S, t) == {i \in 1..Len(S.repos) : t.ref # 0 /\ S.repos[i].ref = t.ref}

SuccessNotices ==
    {"Installed", "Deleted", "Deleted from GitHub", "Renamed", "Added to GitHub"}

\* The names and urls under which the table can show the entity of a
\* mutation after it succeeded in S: the key the handler holds, the new name
\* and url of a rename, the key of the record a publish holds.
KeysAfter(S, t) ==
    IF t.kind = "rename" THEN {<<t.text, RenamedUrl(t.url, t.name, t.text)>>}
    ELSE IF t.kind = "addToGithub"
         THEN {<<S.repos[i].name, S.repos[i].url>> : i \in HeldBy(S, t)}
    ELSE {<<t.name, t.url>>}

\* C19: after the step in which an install, a delete, a rename or a publish
\* succeeds, no row of the entity it was for is Expanded.
C19_SuccessCollapses ==
    [][\A t \in BagToSet(tasks) :
          (/\ t.pc \in MutationCalls \ {"pushRepo", "updateDescription"}
           /\ Ended(t)
           /\ welcome' \in SuccessNotices) =>
              \A key \in KeysAfter(State', t) :
                  ExpandedRows(tbody', key[1], key[2]) = {}]_vars

\* C20: the step in which a remote install fails leaves the table, and so
\* every panel, as it was: a panel that is Expanded when the failure is
\* reported is Expanded after it, whichever affordance started the install.
C20_FailedInstallKeepsPanel ==
    [][\A t \in TasksAt("installRepos") :
          (Ended(t) /\ welcome' = "Install failed") =>
              /\ ActiveIds(tbody') = ActiveIds(tbody)
              /\ \A k \in ExpandedRows(tbody, t.name, t.url) :
                     /\ k \in ExpandedRows(tbody', t.name, t.url)
                     /\ IsActionAt(tbody', k + 1)]_vars

\* The ids of the action rows of a table.
PanelIds(tb) == {tb[k].id : k \in PanelNodes(tb)}

\* C21: with the panel of a row A Expanded, the click on a primary cell of
\* another row B is one step, after which B is the one row that is active,
\* the one action row of the table is a new node right after B that carries
\* B's name and url, and the action row A had is in the table no more; and
\* no step leaves two rows active.
C21_SwitchPanel ==
    [][/\ Len(ActiveIds(tbody')) <= 1
       /\ \A i \in 1..Len(tbody) :
              (/\ ClickPrimaryCell
               /\ tbody[i].tag = "row"
               /\ tbody' = openActionRow(tbody, i)
               /\ ~tbody[i].cells.active
               /\ ActiveIds(tbody) # <<>>) =>
                  LET b == IndexOfId(tbody', tbody[i].id)
                  IN  /\ ActiveIds(tbody') = <<tbody[i].id>>
                      /\ PanelNodes(tbody') = {b + 1}
                      /\ tbody'[b + 1].name = tbody[i].cells.name
                      /\ tbody'[b + 1].url = tbody[i].cells.url
                      /\ PanelIds(tbody') \cap PanelIds(tbody) = {}]_vars

\* The panel of the second row is Expanded, and its action row is a node made
\* while the table held the rows of the load and another action row: the
\* panel of the other row was Expanded when the second row was clicked.
C21_Switched ==
    /\ welcome = ""
    /\ search = <<>>
    /\ Len(tbody) = 3
    /\ {tbody[1].id, tbody[2].id} = {1, 2}
    /\ ActiveIds(tbody) = <<tbody[2].id>>
    /\ tbody[3].tag = "action"
    /\ tbody[3].id = 4

DesiredKeys(S, key, dir, q) ==
    LET repos == getFilteredRepos(S, key, dir, q)
    IN  {buildRowKey(repos[i]) : i \in 1..Len(repos)}

\* The ids of the row nodes of a table that carry a key.
RowIdsOfKey(tb, key) == {tb[k].id : k \in {j \in 1..Len(tb) : tb[j].tag = "row" /\ tb[j].key = key}}

\* C23: a row key that the table is to show before and after a step is
\* shown by the same row nodes before and after it: no render replaces the
\* row node of a key that stays, and a render of an unchanged record set
\* replaces none.
C23_RowNodesKept ==
    [][\A key \in DesiredKeys(State, sortKey, sortDir, search)
                  \cap DesiredKeys(State', sortKey', sortDir', search') :
          RowIdsOfKey(tbody', key) = RowIdsOfKey(tbody, key)]_vars

\* The table was rendered again, sorted by name downwards: the row of b is
\* the first of three rows and is the node made for it by the first render.
C23_SortedSameNodes ==
    /\ sortKey = "name"
    /\ sortDir = "desc"
    /\ search = <<>>
    /\ Len(tbody) = 3
    /\ tbody[1].name = <<"b">>
    /\ tbody[1].id = 3
    /\ {tbody[2].id, tbody[3].id} = {1, 2}

\* The first load was answered, its config without an error, and no handler
\* is suspended.
QuietAfterLoad ==
    /\ handlers
    /\ Quiet
    /\ State.username # "undefined"

InstalledRecords(S) == {i \in 1..Len(S.repos) : isInstalled(S, S.repos[i])}

KeysDiffer(repos) ==
    \A i, j \in 1..Len(repos) : buildRowKey(repos[i]) = buildRowKey(repos[j]) => i = j

\* C25, as the spec states it: a record that comes before another in the
\* order 'created_at descending, then name' has the smaller row number, so
\* the latest record has row number 1 and the earliest row number N.
C25_RankFromLatest ==
    KeysDiffer(State.repos) =>
        /\ \A i \in 1..Len(State.repos) : State.repos[i].rowNo \in 1..Len(State.repos)
        /\ \A i, j \in 1..Len(State.repos) :
               CompareForRowNo(State.repos[i], State.repos[j]) < 0 =>
                   State.repos[i].rowNo < State.repos[j].rowNo

\* C25, amended: the row numbers of records, no two of them with the same
\* key, count from the end of the order 'created_at descending, then name': a record that
\* comes before another in that order has the greater row number, so the
\* latest record has row number N and the earliest row number 1.
C25_RankFromEarliest ==
    KeysDiffer(State.repos) =>
        /\ \A i \in 1..Len(State.repos) : State.repos[i].rowNo \in 1..Len(State.repos)
        /\ \A i, j \in 1..Len(State.repos) :
               CompareForRowNo(State.repos[i], State.repos[j]) < 0 =>
                   State.repos[i].rowNo > State.repos[j].rowNo

\* Three records are loaded: b, the earliest, has row number 1, and a
\* record created later has row number 3.
C25_EarliestIsOne ==
    /\ Len(State.repos) = 3
    /\ \E i, j \in 1..3 :
           /\ State.repos[i].name = <<"b">>
           /\ State.repos[i].rowNo = 1
           /\ getCreatedAtMs(State.repos[j].created_at)
                  > getCreatedAtMs(State.repos[i].created_at)
           /\ State.repos[j].rowNo = 3

\* The records the table is to show, in their order.
Visible == getFilteredRepos(State, sortKey, sortDir, search)

\* C26: two records that follow one another in the output of the view
\* pipeline and compare equal on the active sort column are in the order of
\* their names, ascending and case-insensitively, for every sort key and
\* both directions.
C26_TiesByName ==
    \A k \in 1..(Len(Visible) - 1) :
        CompareForView(sortKey, sortDir, Visible[k], Visible[k + 1]) = 0 =>
            localeCompare(Visible[k].name, Visible[k + 1].name) <= 0

\* The published records that have a name and no other text.
BareRecords ==
    {i \in 1..Len(State.repos) :
        /\ ~State.repos[i].is_new_project
        /\ State.repos[i].name \in {<<"x">>, <<"y">>}
        /\ State.repos[i].description = <<>>
        /\ State.repos[i].url = <<>>
        /\ State.repos[i].created_at = ""}

Shown(i) == \E k \in 1..Len(Visible) : Visible[k].ref = State.repos[i].ref

\* C27, as the spec states it: with the filter text 'priv repo' a published
\* record with a name and no other text is shown exactly if it is private.
C27_PrivRepo ==
    search = PrivRepo => \A i \in BareRecords : Shown(i) <=> State.repos[i].private

\* C27, amended: the label of a published record is 'github'.  With the
\* filter text 'priv github', and with 'github  priv', a published record
\* with a name and no other text is shown exactly if it is private; with
\* 'priv repo' none is shown.
C27_PrivGithub ==
    /\ search \in {PrivGithub, GithubPriv} =>
           \A i \in BareRecords : Shown(i) <=> State.repos[i].private
    /\ search = PrivRepo => \A i \in BareRecords : ~Shown(i)

\* The store holds x (private) and y (public); the filter text is 'priv
\* github' and x is the one record shown.
C27_OnlyPrivateShown ==
    /\ search = PrivGithub
    /\ \E i, j \in BareRecords : State.repos[i].private /\ ~State.repos[j].private
    /\ Len(Visible) = 1
    /\ Visible[1].name = <<"x">>
    /\ Len(tbody) = 1
    /\ tbody[1].cells.name = <<"x">>

\* The row numbers of the store, and those above the row launched last.
RowNumbers(S) == {S.repos[i].rowNo : i \in 1..Len(S.repos)}

RowNumbersAfter(S) == {n \in RowNumbers(S) : n > S.lastLaunchedRowNo}

Least(numbers) == CHOOSE n \in numbers : \A m \in numbers : n <= m

\* C28: getNextLaunchRepo returns nothing exactly if the store is empty;
\* otherwise it returns a record of the store, the one with the least row
\* number above the row launched last, or, when no row number is above it,
\* the one with the least row number of all.
C28_NextLaunchable ==
    LET next == getNextLaunchRepo(State)
    IN  /\ next = <<>> <=> State.repos = <<>>
        /\ next # <<>> =>
              /\ \E i \in 1..Len(State.repos) : State.repos[i] = next[1]
              /\ next[1].rowNo = IF RowNumbersAfter(State) # {}
                                 THEN Least(RowNumbersAfter(State))
                                 ELSE Least(RowNumbers(State))

\* Row 1 of three was launched last, and row 2 is the next to launch.
C28_SecondIsNext ==
    /\ Len(State.repos) = 3
    /\ State.lastLaunchedRowNo = 1
    /\ getNextLaunchRepo(State) # <<>>
    /\ getNextLaunchRepo(State)[1].rowNo = 2
    /\ header.next = 2

\* The attempts of an open call and the wait between them.
OpenAttempts == {"openFolder", "delay", "openFolderRetry"}

\* The errors that are transient: the server's answer 500.
TransientErrors == {<<"HTTP 500">>}

\* The closure of a task without its position and the error it caught.
Closure(t) == [t EXCEPT !.pc = "", !.text = <<>>]

\* A step in which some handler starts to wait at one of the positions.
StartsAt(pcs) == \E u \in BagToSet(tasks') : u.pc \in pcs /\ Started(u)

\* C29: an open call is issued a second time only after its first attempt
\* failed with a transient error and the delay passed, and never a third
\* time: the step that answers the second attempt ends the handler, and so
\* does a step that answers the first, unless it starts the delay with a
\* transient error.  The install, delete, rename, publish, push
\* and description calls are issued in a step that starts a user's change and
\* uses up one unit of the budget, and the step in which such a call is
\* answered, with success or failure, issues no such call again.
C29_RetryOpenOnce ==
    [][/\ \A t \in TasksAt("openFolderRetry") :
              /\ Started(t) =>
                    \E u \in Waiting("delay") : Ended(u) /\ Closure(u) = Closure(t)
              /\ Ended(t) =>
                    /\ ~StartsAt(OpenAttempts)
                    /\ BagCardinality(tasks') = BagCardinality(tasks) - 1
       /\ \A u \in TasksAt("delay") :
              /\ Started(u) =>
                    /\ u.text \in TransientErrors
                    /\ \E t \in Waiting("openFolder") : Ended(t) /\ Closure(t) = Closure(u)
              /\ Ended(u) =>
                    \E t \in TasksAt("openFolderRetry") :
                        Started(t) /\ Closure(t) = Closure(u)
       /\ \A t \in TasksAt("openFolder") :
              Ended(t) =>
                  \/ \E u \in TasksAt("delay") :
                         Started(u) /\ Closure(u) = Closure(t) /\ u.text \in TransientErrors
                  \/ BagCardinality(tasks') = BagCardinality(tasks) - 1
       /\ \A t \in BagToSet(tasks) \cup BagToSet(tasks') :
              t.pc \in MutationCalls =>
                  /\ Started(t) => budget' = budget - 1
                  /\ Ended(t) => ~StartsAt(MutationCalls)]_vars

\* The first attempt of an open call failed with the server's 500, the
\* delay passed, and the call is issued a second time.
C29_Reissued ==
    \E t \in Waiting("openFolderRetry") :
        /\ t.text \in TransientErrors
        /\ CopiesIn(t, tasks) = 1
        /\ Waiting("delay") = {}

\* The rows of the table in which an input field is open and has the focus.
OpenFields == {k \in 1..Len(tbody) : tbody[k].tag = "row" /\ tbody[k].cells.focus # ""}

\* C30: a step in which the handler of another entity ends, and after which
\* the table is still to show the key of a row with an open input field,
\* leaves the field in the row: the same row node holds the input, with the
\* focus, after the step.
C30_EditSurvivesRender ==
    [][\A k \in OpenFields :
          \A t \in BagToSet(tasks) :
              (/\ Ended(t)
               /\ t.name # tbody[k].cells.name \/ t.url # tbody[k].cells.url
               /\ tbody[k].key \in DesiredKeys(State', sortKey', sortDir', search')) =>
                  \E j \in 1..Len(tbody') :
                      /\ tbody'[j].tag = "row"
                      /\ tbody'[j].id = tbody[k].id
                      /\ tbody'[j].cells.editName = tbody[k].cells.editName
                      /\ tbody'[j].cells.editDescription = tbody[k].cells.editDescription
                      /\ tbody'[j].cells.focus = tbody[k].cells.focus]_vars

(***************************************************************************)
(* Rendering: moves, document order.                                       *)
(***************************************************************************)
\* The ids of the repo rows of a tree, in document order.
RowIds(tb) ==
    LET rows == SelectSeq(tb, LAMBDA n : n.tag = "row")
    IN  [i \in 1..Len(rows) |-> rows[i].id]

PositionIn(ids, id) == FirstIndex({i \in 1..Len(ids) : ids[i] = id})

\* The fewest moves that turn the order before into the order after: every
\* node outside a largest set of nodes that keep their relative order.
MinMoves(before, after) ==
    LET common == {before[i] : i \in 1..Len(before)} \cap {after[i] : i \in 1..Len(after)}
        inOrder(c) == \A x, y \in c :
                         PositionIn(before, x) < PositionIn(before, y)
                             <=> PositionIn(after, x) < PositionIn(after, y)
        stay == CHOOSE c \in SUBSET common :
                    /\ inOrder(c)
                    /\ \A d \in SUBSET common : inOrder(d) => Cardinality(d) <= Cardinality(c)
    IN  Cardinality(common) - Cardinality(stay)

\* C31: a render moves as few rows as turning the previous order of the
\* reused rows into the desired order needs; here for the render of a click on
\* a column header.
C31_MinimalMoves ==
    [][ClickAnyHeader =>
         RenderMoves(State, tbody, sortKey', sortDir', search)
             = MinMoves(RowIds(tbody), RowIds(tbody'))]_vars

\* The keys of the repo rows of a tree, in document order.
RowKeys(tb) ==
    LET rows == SelectSeq(tb, LAMBDA n : n.tag = "row")
    IN  [i \in 1..Len(rows) |-> rows[i].key]

\* The keys of the records the view pipeline puts out, in its order.
OutputKeys ==
    LET repos == getFilteredRepos(State, sortKey, sortDir, search)
    IN  [i \in 1..Len(repos) |-> buildRowKey(repos[i])]

\* C32: once the listeners are registered, the repo rows in document order
\* carry exactly the keys of the view pipeline's output, in its order and each
\* key once: no row of another key is left in the table.
C32_RowsAreOutput ==
    handlers =>
        /\ RowKeys(tbody) = OutputKeys
        /\ \A i, j \in 1..Len(RowKeys(tbody)) :
               RowKeys(tbody)[i] = RowKeys(tbody)[j] => i = j

\* The same, for the stores in which no two records have the same key.
RowsAreOutputOfKeyed == KeysDiffer(State.repos) => C32_RowsAreOutput

(***************************************************************************)
(* Row numbers under changes of one record's fields.                       *)
(***************************************************************************)
\* The row number of the record ref refers to, or 0.
RowNoOfRef(S, ref) ==
    LET hits == {i \in 1..Len(S.repos) : S.repos[i].ref = ref}
    IN  IF hits = {} THEN 0 ELSE S.repos[FirstIndex(hits)].rowNo

\* The steps that change fields of one record and neither add nor remove one.
FieldChanges ==
    \/ RenameSucceeds
    \/ DescribeSucceeds
    \/ PublishSucceeds
    \/ ClickPush
    \/ PushSucceeds
    \/ PushFails

\* C33: a rename, description edit, publish or push leaves the row number of
\* every record as it was (stated for the stores it leaves without equal keys).
C33_FieldChangeKeepsRowNo ==
    [][FieldChanges /\ KeysDiffer(State'.repos) =>
          \A i \in 1..Len(State.repos) :
              RowNoOfRef(State', State.repos[i].ref) = State.repos[i].rowNo]_vars

(***************************************************************************)
(* Sorting by the creation date.                                           *)
(***************************************************************************)
\* Date.parse reads the timestamp of the record.
Dated(repo) == DateParse(repo.created_at) # <<>>

\* C34: under the sort by created_at a record whose timestamp cannot be
\* parsed comes below every record whose timestamp can, dates before the
\* epoch included: first in ascending order, last in descending order.
C34_UndatedLowest ==
    sortKey = "created_at" =>
        \A i, j \in 1..Len(Visible) :
            ~Dated(Visible[i]) /\ Dated(Visible[j]) =>
                IF sortDir = "asc" THEN i < j ELSE j < i

(***************************************************************************)
(* Live updates.                                                           *)
(***************************************************************************)
\* The keys of the expanded rows of a tree, in document order.
ExpandedKeys(tb) ==
    LET rows == SelectSeq(tb, LAMBDA n : n.tag = "row" /\ n.cells.active)
    IN  [i \in 1..Len(rows) |-> rows[i].key]

\* C35: across a live update of the page template or of the row and panel
\* templates, the row that was expanded before is expanded after, and if none
\* was expanded none is after.
C35_UpdateKeepsExpanded ==
    [][HotPageTemplate \/ HotUiTemplates =>
          ExpandedKeys(tbody') = ExpandedKeys(tbody)]_vars

\* The same for the update of the page template alone.
PageUpdateKeepsExpanded ==
    [][HotPageTemplate => ExpandedKeys(tbody') = ExpandedKeys(tbody)]_vars

\* The calls of a load: the two fetches of State.init.
LoadCalls == {"init", "reload"}

\* C36: an update of the program restores the store it captured by value
\* (records with their row numbers, installed set, counters, launch watermark,
\* user info), and the start-up that restores it issues no call of a load.
C36_RestoredByValue ==
    [][HotProgram =>
          /\ State' = State
          /\ \A t \in BagToSet(tasks') : t.pc \notin LoadCalls]_vars

\* The same for a store whose user info the first load has defined.
DefinedStoreRestored ==
    [][HotProgram /\ State.username # "undefined" =>
          /\ State' = State
          /\ \A t \in BagToSet(tasks') : t.pc \notin LoadCalls]_vars

(***************************************************************************)
(* Push under changes of its record.                                       *)
(***************************************************************************)
\* The indexes of the record a push was dispatched for, by identity.
PushTarget(S, t) == {i \in 1..Len(S.repos) : t.target # 0 /\ S.repos[i].ref = t.target}

\* C37: the step in which a push fails leaves can_push of the record the
\* push was dispatched for true, also when the record's name or url was
\* changed by a rename or a publish while the push was in flight.
C37_FailedPushRestores ==
    [][\A t \in TasksAt("pushRepo") :
          (Ended(t) /\ welcome' = "Push failed") =>
              \A i \in PushTarget(State', t) : State'.repos[i].can_push]_vars

\* The same for the pushes whose record has kept its name and url.
FailedPushOfKeptRestores ==
    [][\A t \in TasksAt("pushRepo") :
          (Ended(t) /\ welcome' = "Push failed") =>
              \A i \in PushTarget(State', t) :
                  (State'.repos[i].name = t.name /\ State'.repos[i].url = t.url)
                      => State'.repos[i].can_push]_vars

(***************************************************************************)
(* Install under a reload in flight.                                       *)
(***************************************************************************)
\* The launches whose install was confirmed while a reload was under way and
\* that still wait for the folder to open.
InstalledUnderLoad ==
    {u \in Waiting("openFolder") : u.kind = "launch" /\ u.target = 1}

\* The records stored under the url of a task.
RecordsOf(S, u) ==
    {i \in 1..Len(S.repos) : normalizeRepoUrl(S.repos[i].url) = normalizeRepoUrl(u.url)}

\* C38: a record whose install was confirmed while a reload was under way is
\* reported installed from then on (no delete is dispatched meanwhile).
C38_InstalledSurvivesLoad ==
    \A u \in InstalledUnderLoad :
        \A i \in RecordsOf(State, u) : isInstalled(State, State.repos[i])

\* The same while the reload is still under way.
InstalledUntilLoaded ==
    LoadInFlight => C38_InstalledSurvivesLoad

\* The number of prompts that wait for an answer in a bag of tasks.
PendingPrompts(ts) ==
    BagCardinality([t \in {u \in BagToSet(ts) : u.pc = "confirm"} |-> CopiesIn(t, ts)])

\* C39: after every step at most one prompt waits for an answer; a step that
\* opens a prompt while another one waits ends the earlier one and starts no
\* delete call; and a step that starts a delete call ends the one prompt
\* that was waiting, opens no other, and the call carries the kind, name and
\* url of that prompt.
C39_OnePromptAtATime ==
    [][/\ PendingPrompts(tasks') <= 1
       /\ \A c \in TasksAt("confirm") :
              Started(c) =>
                  /\ \A o \in Waiting("confirm") : o # c => Ended(o)
                  /\ DeleteCallCount(tasks') = DeleteCallCount(tasks)
       /\ \A d \in TasksAt("deleteRepos") \cup TasksAt("deleteGithubRepo") :
              Started(d) =>
                  /\ PendingPrompts(tasks) = 1
                  /\ PendingPrompts(tasks') = 0
                  /\ DeleteCallCount(tasks') = DeleteCallCount(tasks) + 1
                  /\ \A c \in Waiting("confirm") :
                         SameKey(c, d) /\ c.kind = d.kind]_vars

\* Two prompts were answered 'yes' one after the other: the delete calls of
\* two different records are pending and no prompt waits.
C39_TwoConfirmedDeletes ==
    /\ PendingPrompts(tasks) = 0
    /\ \E d, e \in Waiting("deleteRepos") \cup Waiting("deleteGithubRepo") :
           ~SameKey(d, e)

\* The identities of the records of a store, of the record getNextLaunchRepo
\* returns (0 when it returns nothing), and of the record whose row number
\* the watermark holds (0 when no record has it).
RefsOf(S) == {S.repos[i].ref : i \in 1..Len(S.repos)}

NextRef(S) == IF getNextLaunchRepo(S) = <<>> THEN 0 ELSE getNextLaunchRepo(S)[1].ref

MarkedRef(S) ==
    RefOfFirst(S.repos, {i \in 1..Len(S.repos) : S.repos[i].rowNo = S.lastLaunchedRowNo})

\* A delete call succeeded and a record left the store.
RecordDeleted ==
    /\ DeleteSucceeds \/ DeleteGithubSucceeds
    /\ Len(State'.repos) < Len(State.repos)

\* C40: a step in which a delete removes a record that is neither the record
\* launched last nor the one to launch next leaves the next launch target
\* the same record: the one that follows the record launched last in
\* row-number order.
C40_WatermarkFollowsRecord ==
    [][/\ RecordDeleted
       /\ State.lastLaunchedRowNo > 0
       /\ MarkedRef(State) \in RefsOf(State')
       /\ NextRef(State) \in RefsOf(State')
       => NextRef(State') = NextRef(State)]_vars

\* The same for the delete of a record whose row number is above the
\* watermark, which leaves the row number of the record launched last as it
\* was.
DeleteAboveKeepsNext ==
    [][/\ RecordDeleted
       /\ State.lastLaunchedRowNo > 0
       /\ MarkedRef(State) \in RefsOf(State')
       /\ NextRef(State) \in RefsOf(State')
       /\ \A i \in 1..Len(State.repos) :
              State.repos[i].ref \notin RefsOf(State')
                  => State.repos[i].rowNo > State.lastLaunchedRowNo
       => NextRef(State') = NextRef(State)]_vars

====
